---- MODULE Spec2Model ----
(***************************************************************************)
(* Round service of the golf tracker (src/src/services/roundservice.js):   *)
(* createRound, deleteAbandonedRound, saveHoleData and completeRound       *)
(* against the rounds / shots / courses tables, one action per store       *)
(* operation (every await is a point where other operations interleave),   *)
(* and the insights edge function (src/oldfunctionclaude.ts) that          *)
(* completeRound triggers: one action per awaited call of its handler.     *)
(***************************************************************************)
EXTENDS Integers, Sequences, FiniteSets, TLC

\* ---------------------------------------------------------------- bounds
MaxRounds == 1      \* round ids the store hands out
MaxHoles == 2       \* hole numbers present in a stored-hole-data argument
MaxShots == 2       \* longest shot list of a hole

\* ------------------------------------------------------- program constants
DefaultPar == 72

\* ------------------------------------------------------------ value space
Null == <<>>
Some(v) == <<v>>

Callers == {"A", "B"}
Profiles == {"p1"}
CourseIds == {"c1", "c2"}

\* the courses table: one course with a stored par, one whose par is not set
courses ==
  { [id |-> "c1", par |-> Some(70)], [id |-> "c2", par |-> Null] }

ShotEntries ==
  { [type |-> "Tee Shot", result |-> "On Target"] }

ShotLists == UNION { [1..n -> ShotEntries] : n \in 0..MaxShots }

\* storedHoleData[holeNum]: undefined, an entry without a shots field, or an
\* entry with a shot list (par stands for the fields copied through verbatim)
Missing == [defined |-> FALSE, hasShots |-> FALSE, par |-> 4, shots |-> <<>>]
NoShots == [defined |-> TRUE, hasShots |-> FALSE, par |-> 4, shots |-> <<>>]
HoleEntries ==
  {Missing, NoShots} \cup
  { [defined |-> TRUE, hasShots |-> TRUE, par |-> 4, shots |-> s] : s \in ShotLists }

HoleDataInputs == [1..MaxHoles -> HoleEntries]
TotalHolesInputs == 0..MaxHoles
RoundIds == 1..MaxRounds

VARIABLES
  rounds,   \* table rounds: set of rows
  shots,    \* table shots: set of hole rows
  nextId,   \* next id the store gives an inserted round
  call,     \* per caller: the completeRound invocation in progress / finished
  obs,      \* history variable: per caller, what its previous call did
  user_permissions,  \* table user_permissions: set of rows
  insights, \* table insights: set of rows
  gen       \* the invocation of the insights function in progress / finished

roundVars == <<rounds, shots, nextId, call, obs>>
genVars == <<user_permissions, insights, gen>>
vars == <<rounds, shots, nextId, call, obs, user_permissions, insights, gen>>

\* ------------------------------------------------------- store primitives
\* .insert({profile_id, course_id, is_complete: false, ...})
InsertRound(tbl, id, profile_id, course_id) ==
  tbl \cup { [id |-> id, profile_id |-> profile_id, course_id |-> course_id,
              is_complete |-> FALSE, gross_shots |-> Null, score |-> Null] }

\* (variant: the delete is not filtered on the completion flag)
DeleteIncompleteNoFilter(tbl, round_id) ==
  { r \in tbl : ~(r.id = round_id) }

\* .delete().eq("id", round_id).eq("is_complete", false)
DeleteIncomplete(tbl, round_id) ==
  { r \in tbl : ~(r.id = round_id /\ r.is_complete = FALSE) }

\* .select(...).eq("id", id).single(): an error unless exactly one row matches
Single(rows) ==
  IF Cardinality(rows) = 1
    THEN [error |-> FALSE, data |-> rows]
    ELSE [error |-> TRUE, data |-> {}]

\* (variant: no default for a par that is not set)
CourseParNoDefault(par) ==
  IF par = Null THEN 0 ELSE par[1]

\* courseData.par || 72
CoursePar(par) ==
  IF par = Null \/ par[1] = 0 THEN DefaultPar ELSE par[1]

\* storedHoleData[holeNum]
EntryAt(storedHoleData, holeNum) ==
  IF holeNum \in DOMAIN storedHoleData THEN storedHoleData[holeNum] ELSE Missing

\* (variant: an empty shot list is not skipped)
SkipHoleKeepsEmpty(entry) ==
  ~entry.defined \/ ~entry.hasShots

\* !storedHoleData[h] || !storedHoleData[h].shots || shots.length === 0
SkipHole(entry) ==
  ~entry.defined \/ ~entry.hasShots \/ Len(entry.shots) = 0

\* the row handed to upsert for hole holeNum
HoleRow(round_id, holeNum, holeInfo) ==
  [round_id |-> round_id, hole_number |-> holeNum,
   hole_data |-> [par |-> holeInfo.par, shots |-> holeInfo.shots],
   total_score |-> Len(holeInfo.shots)]

\* (variant: a plain insert, no conflict key)
UpsertHoleAsInsert(tbl, row) ==
  tbl \cup {row}

\* .upsert(row, {onConflict: 'round_id,hole_number'})
UpsertHole(tbl, row) ==
  { s \in tbl : ~(s.round_id = row.round_id /\ s.hole_number = row.hole_number) }
    \cup {row}

\* (variant: the flag is set without the totals)
UpdateCompletedFlagOnly(tbl, round_id, grossShots, score) ==
  { IF r.id = round_id THEN [r EXCEPT !.is_complete = TRUE] ELSE r : r \in tbl }

\* (variant: the totals are added to the totals the row already holds)
UpdateCompletedAccumulates(tbl, round_id, grossShots, score) ==
  { IF r.id = round_id
      THEN [r EXCEPT !.is_complete = TRUE,
                     !.gross_shots = IF @ = Null THEN Some(grossShots)
                                     ELSE Some(@[1] + grossShots),
                     !.score = IF @ = Null THEN Some(score) ELSE Some(@[1] + score)]
      ELSE r : r \in tbl }

\* .update({is_complete: true, gross_shots, score}).eq("id", round_id).select()
UpdateCompleted(tbl, round_id, grossShots, score) ==
  { IF r.id = round_id
      THEN [r EXCEPT !.is_complete = TRUE, !.gross_shots = Some(grossShots),
                     !.score = Some(score)]
      ELSE r : r \in tbl }

\* the rows .select() returns after the update
UpdatedRows(tbl, round_id) == { r \in tbl : r.id = round_id }

\* the loop's next hole number that is not skipped (totalHoles + 1: loop over)
RECURSIVE NextHole(_, _, _)
NextHole(storedHoleData, totalHoles, holeNum) ==
  IF holeNum > totalHoles THEN totalHoles + 1
  ELSE IF SkipHole(EntryAt(storedHoleData, holeNum))
         THEN NextHole(storedHoleData, totalHoles, holeNum + 1)
         ELSE holeNum

\* ------------------------------------------------------------- call state
NoError == [stage |-> "", hole |-> 0]
NoTrigger == [state |-> "none", userId |-> "", roundId |-> 0]
NoRoundData == [course_id |-> "", profile_id |-> ""]
NoView == [rounds |-> {}, shots |-> {}]

\* what the store holds about one round
View(round_id) ==
  [rounds |-> { r \in rounds : r.id = round_id },
   shots |-> { s \in shots : s.round_id = round_id }]

\* completeRound as one function of what the store holds about the round: the
\* loop over the holes, then the update, none of them failing
RECURSIVE EffectHoles(_, _, _, _, _)
EffectHoles(tbl, round_id, storedHoleData, totalHoles, holeNum) ==
  IF holeNum > totalHoles THEN tbl
  ELSE LET holeInfo == EntryAt(storedHoleData, holeNum)
       IN IF SkipHole(holeInfo)
            THEN EffectHoles(tbl, round_id, storedHoleData, totalHoles, holeNum + 1)
            ELSE EffectHoles(UpsertHole(tbl, HoleRow(round_id, holeNum, holeInfo)),
                             round_id, storedHoleData, totalHoles, holeNum + 1)

RECURSIVE EffectGross(_, _, _)
EffectGross(storedHoleData, totalHoles, holeNum) ==
  IF holeNum > totalHoles THEN 0
  ELSE LET holeInfo == EntryAt(storedHoleData, holeNum)
       IN (IF SkipHole(holeInfo) THEN 0 ELSE Len(holeInfo.shots))
            + EffectGross(storedHoleData, totalHoles, holeNum + 1)

CompleteRoundEffect(view, round_id, storedHoleData, totalHoles) ==
  LET row == CHOOSE r \in view.rounds : TRUE
      courseData == CHOOSE k \in courses : k.id = row.course_id
      grossShots == EffectGross(storedHoleData, totalHoles, 1)
      score == grossShots - CoursePar(courseData.par)
  IN [rounds |-> UpdateCompleted(view.rounds, round_id, grossShots, score),
      shots |-> EffectHoles(view.shots, round_id, storedHoleData, totalHoles, 1)]

IdleCall ==
  [pc |-> "idle", round_id |-> 0, storedHoleData |-> <<>>, totalHoles |-> 0,
   roundData |-> NoRoundData, coursePar |-> 0, holeNum |-> 0,
   grossShots |-> 0, holesProcessed |-> 0, finalRoundData |-> {},
   error |-> NoError, trigger |-> NoTrigger, invoked |-> 0,
   wrote |-> <<>>]   \* wrote: the hole numbers upserted so far, in order

NoObs == [prior |-> "none", base |-> NoView]

Finished(c) == call[c].pc \in {"idle", "returned", "failed"}

\* the insights function before a request: every local of the handler unset
NoBody == [userId |-> Null, roundId |-> Null]
NoAnswer == [op |-> "", kind |-> "", user |-> Null]
IdleGen ==
  [pc |-> "idle", authHeader |-> FALSE, requestBody |-> NoBody,
   answer |-> NoAnswer,          \* what the last awaited call answered
   userId |-> Null, userHandicap |-> Null, hasProductA |-> FALSE,
   triggeringRoundId |-> Null, roundsData |-> <<>>, roundIds |-> <<>>,
   processedRounds |-> <<>>, request |-> Null, apiCalls |-> 0,
   claudeMessage |-> Null,
   jsonText |-> Null,            \* the text handed to JSON.parse
   insightsJSON |-> Null, completeInsights |-> Null,
   storedInsightsId |-> Null, response |-> Null]

Init ==
  /\ rounds = {}
  /\ shots = {}
  /\ nextId = 1
  /\ call = [c \in Callers |-> IdleCall]
  /\ obs = [c \in Callers |-> NoObs]
  /\ user_permissions = {}
  /\ insights = {}
  /\ gen = IdleGen

\* ---------------------------------------------------------------- actions
\* createRound(profile_id, course_id, ...): one insert; throws on error
CreateRound(profile_id, course_id, fail) ==
  /\ nextId <= MaxRounds
  /\ IF fail
       THEN UNCHANGED <<rounds, nextId>>
       ELSE /\ rounds' = InsertRound(rounds, nextId, profile_id, course_id)
            /\ nextId' = nextId + 1
  /\ UNCHANGED <<shots, call, obs, genVars>>

\* (variant: the round's hole records are deleted along with it, unfiltered)
DeleteAbandonedRoundCascades(round_id, fail) ==
  /\ rounds' = IF fail THEN rounds ELSE DeleteIncomplete(rounds, round_id)
  /\ shots' = IF fail THEN shots ELSE { s \in shots : s.round_id # round_id }
  /\ UNCHANGED <<nextId, call, obs, genVars>>

\* deleteAbandonedRound(round_id): one filtered delete; returns false on error
DeleteAbandonedRound(round_id, fail) ==
  /\ rounds' = IF fail THEN rounds ELSE DeleteIncomplete(rounds, round_id)
  /\ UNCHANGED <<shots, nextId, call, obs, genVars>>

\* saveHoleData(...): builds and returns a record, touches no table
SaveHoleData(round_id, hole_number, hole_data) ==
  /\ round_id \in RoundIds
  /\ hole_number \in 1..MaxHoles
  /\ hole_data \in HoleEntries
  /\ UNCHANGED vars

\* completeRound(round_id, storedHoleData, totalHoles): entry
CompleteRound(c, round_id, storedHoleData, totalHoles) ==
  /\ Finished(c)
  /\ call' = [call EXCEPT ![c] =
                [IdleCall EXCEPT !.pc = "fetchRound",
                                 !.round_id = round_id,
                                 !.storedHoleData = storedHoleData,
                                 !.totalHoles = totalHoles]]
  /\ UNCHANGED <<rounds, shots, nextId, genVars>>

\* history: is this call a retry of a failed call, or a repetition of a call
\* that returned, with the same arguments; base is what the store held about
\* the round when the first call of such a chain began
Observe(c, round_id, storedHoleData, totalHoles) ==
  LET prev == call[c]
      same == /\ prev.pc # "idle"
              /\ prev.round_id = round_id
              /\ prev.storedHoleData = storedHoleData
              /\ prev.totalHoles = totalHoles
      retry == /\ same
               /\ prev.pc = "failed"
               /\ \/ prev.error.stage \in {"Failed to save data for hole",
                                            "Failed to finalize round"}
                  \/ obs[c].prior = "failed"
      again == same /\ prev.pc = "returned"
  IN obs' = [obs EXCEPT ![c] =
               [prior |-> IF retry THEN "failed"
                          ELSE IF again THEN "returned" ELSE "none",
                base |-> IF retry THEN obs[c].base ELSE View(round_id)]]

Throw(c, stage, hole) ==
  call' = [call EXCEPT ![c].pc = "failed",
                       ![c].error = [stage |-> stage, hole |-> hole]]

\* step 1: rounds.select(course_id, profile_id, ...).eq(id).single()
FetchRound(c, fail) ==
  /\ call[c].pc = "fetchRound"
  /\ LET res == Single({ r \in rounds : r.id = call[c].round_id })
     IN IF fail \/ res.error
          THEN Throw(c, "Failed to fetch round information", 0)
          ELSE LET row == CHOOSE r \in res.data : TRUE
               IN call' = [call EXCEPT
                     ![c].pc = "fetchCourse",
                     ![c].roundData = [course_id |-> row.course_id,
                                       profile_id |-> row.profile_id]]
  /\ UNCHANGED <<rounds, shots, nextId, obs, genVars>>

\* step 2: courses.select(par).eq(id).single(); then the loop runs up to the
\* first hole that is written
FetchCourse(c, fail) ==
  /\ call[c].pc = "fetchCourse"
  /\ LET res == Single({ k \in courses : k.id = call[c].roundData.course_id })
     IN IF fail \/ res.error
          THEN Throw(c, "Failed to fetch course information", 0)
          ELSE LET courseData == CHOOSE k \in res.data : TRUE
                   first == NextHole(call[c].storedHoleData, call[c].totalHoles, 1)
               IN call' = [call EXCEPT
                     ![c].coursePar = CoursePar(courseData.par),
                     ![c].holeNum = first,
                     ![c].pc = IF first <= call[c].totalHoles
                                 THEN "saveHole" ELSE "updateRound"]
  /\ UNCHANGED <<rounds, shots, nextId, obs, genVars>>

\* (variant: a failed hole write undoes the holes this call wrote)
SaveHoleRollsBack(c, fail) ==
  /\ call[c].pc = "saveHole"
  /\ LET holeNum == call[c].holeNum
         holeInfo == EntryAt(call[c].storedHoleData, holeNum)
         totalScore == Len(holeInfo.shots)
         next == NextHole(call[c].storedHoleData, call[c].totalHoles, holeNum + 1)
         mine == { s \in shots : /\ s.round_id = call[c].round_id
                                  /\ \E i \in 1..Len(call[c].wrote) :
                                       call[c].wrote[i] = s.hole_number }
     IN IF fail
          THEN /\ Throw(c, "Failed to save data for hole", holeNum)
               /\ shots' = shots \ mine
          ELSE /\ shots' = UpsertHole(shots, HoleRow(call[c].round_id, holeNum, holeInfo))
               /\ call' = [call EXCEPT
                     ![c].grossShots = @ + totalScore,
                     ![c].holesProcessed = @ + 1,
                     ![c].wrote = Append(@, holeNum),
                     ![c].holeNum = next,
                     ![c].pc = IF next <= call[c].totalHoles
                                 THEN "saveHole" ELSE "updateRound"]
  /\ UNCHANGED <<rounds, nextId, obs, genVars>>

\* (variant: a hole that already has a stored record is neither written nor
\* counted)
SaveHoleSkipsStored(c, fail) ==
  /\ call[c].pc = "saveHole"
  /\ LET holeNum == call[c].holeNum
         holeInfo == EntryAt(call[c].storedHoleData, holeNum)
         totalScore == Len(holeInfo.shots)
         next == NextHole(call[c].storedHoleData, call[c].totalHoles, holeNum + 1)
         stored == \E s \in shots : /\ s.round_id = call[c].round_id
                                     /\ s.hole_number = holeNum
     IN IF fail
          THEN /\ Throw(c, "Failed to save data for hole", holeNum)
               /\ UNCHANGED shots
          ELSE /\ shots' = IF stored THEN shots
                           ELSE UpsertHole(shots, HoleRow(call[c].round_id, holeNum, holeInfo))
               /\ call' = [call EXCEPT
                     ![c].grossShots = IF stored THEN @ ELSE @ + totalScore,
                     ![c].holesProcessed = IF stored THEN @ ELSE @ + 1,
                     ![c].wrote = IF stored THEN @ ELSE Append(@, holeNum),
                     ![c].holeNum = next,
                     ![c].pc = IF next <= call[c].totalHoles
                                 THEN "saveHole" ELSE "updateRound"]
  /\ UNCHANGED <<rounds, nextId, obs, genVars>>

\* step 3: one iteration that writes: upsert hole holeNum, add its shots to
\* grossShots, go on to the next hole that is not skipped
SaveHole(c, fail) ==
  /\ call[c].pc = "saveHole"
  /\ LET holeNum == call[c].holeNum
         holeInfo == EntryAt(call[c].storedHoleData, holeNum)
         totalScore == Len(holeInfo.shots)
         next == NextHole(call[c].storedHoleData, call[c].totalHoles, holeNum + 1)
     IN IF fail
          THEN /\ Throw(c, "Failed to save data for hole", holeNum)
               /\ UNCHANGED shots
          ELSE /\ shots' = UpsertHole(shots, HoleRow(call[c].round_id, holeNum, holeInfo))
               /\ call' = [call EXCEPT
                     ![c].grossShots = @ + totalScore,
                     ![c].holesProcessed = @ + 1,
                     ![c].wrote = Append(@, holeNum),
                     ![c].holeNum = next,
                     ![c].pc = IF next <= call[c].totalHoles
                                 THEN "saveHole" ELSE "updateRound"]
  /\ UNCHANGED <<rounds, nextId, obs, genVars>>

\* (variant: the insights function is invoked before the round update is known
\* to have succeeded)
UpdateRoundTriggerFirst(c, fail, invokeThrows) ==
  /\ call[c].pc = "updateRound"
  /\ LET grossShots == call[c].grossShots
         score == grossShots - call[c].coursePar
         after == IF fail THEN rounds
                  ELSE UpdateCompleted(rounds, call[c].round_id, grossShots, score)
     IN /\ rounds' = after
        /\ call' = [call EXCEPT
              ![c].finalRoundData =
                 IF fail THEN {} ELSE UpdatedRows(after, call[c].round_id),
              ![c].invoked = @ + 1,
              ![c].trigger =
                 [state |-> IF invokeThrows THEN "threw" ELSE "pending",
                  userId |-> call[c].roundData.profile_id,
                  roundId |-> call[c].round_id],
              ![c].error = IF fail THEN [stage |-> "Failed to finalize round", hole |-> 0]
                           ELSE @,
              ![c].pc = IF fail THEN "failed" ELSE "returned"]
  /\ UNCHANGED <<shots, nextId, obs, genVars>>

\* steps 4-6: score, the single update of the round row, the dispatch of the
\* insights function (not awaited; a synchronous throw of invoke is caught),
\* and the return of the updated rows
UpdateRound(c, fail, invokeThrows) ==
  /\ call[c].pc = "updateRound"
  /\ LET grossShots == call[c].grossShots
         score == grossShots - call[c].coursePar
         after == UpdateCompleted(rounds, call[c].round_id, grossShots, score)
     IN IF fail
          THEN /\ Throw(c, "Failed to finalize round", 0)
               /\ UNCHANGED rounds
          ELSE /\ rounds' = after
               /\ call' = [call EXCEPT
                     ![c].finalRoundData = UpdatedRows(after, call[c].round_id),
                     ![c].invoked = @ + 1,
                     ![c].trigger =
                        [state |-> IF invokeThrows THEN "threw" ELSE "pending",
                         userId |-> call[c].roundData.profile_id,
                         roundId |-> call[c].round_id],
                     ![c].pc = "returned"]
  /\ UNCHANGED <<shots, nextId, obs, genVars>>

\* (variant: the invocation is awaited, its error or rejection fails the call)
InsightSettleSurfaces(c, outcome) ==
  /\ call[c].trigger.state = "pending"
  /\ outcome \in {"success", "error", "rejected"}
  /\ call' = [call EXCEPT
        ![c].trigger.state = outcome,
        ![c].pc = IF outcome = "success" THEN @ ELSE "failed",
        ![c].error = IF outcome = "success" THEN @
                     ELSE [stage |-> "Failed to generate insights", hole |-> 0]]
  /\ UNCHANGED <<rounds, shots, nextId, obs, genVars>>

\* the promise of functions.invoke settles: .then logs the result or the
\* error, .catch logs the rejection; nothing else happens
InsightSettle(c, outcome) ==
  /\ call[c].trigger.state = "pending"
  /\ outcome \in {"success", "error", "rejected"}
  /\ call' = [call EXCEPT ![c].trigger.state = outcome]
  /\ UNCHANGED <<rounds, shots, nextId, obs, genVars>>

\* the steps of a call after its entry
CallProgress(c) ==
  \/ \E fail \in BOOLEAN : FetchRound(c, fail)
  \/ \E fail \in BOOLEAN : FetchCourse(c, fail)
  \/ \E fail \in BOOLEAN : SaveHole(c, fail)
  \/ \E fail \in BOOLEAN, invokeThrows \in BOOLEAN : UpdateRound(c, fail, invokeThrows)
  \/ \E outcome \in {"success", "error", "rejected"} : InsightSettle(c, outcome)

CallStep(c) ==
  \/ \E r \in RoundIds, d \in HoleDataInputs, t \in TotalHolesInputs :
       CompleteRound(c, r, d, t) /\ UNCHANGED obs
  \/ CallProgress(c)

ObservedCallStep(c) ==
  \/ \E r \in RoundIds, d \in HoleDataInputs, t \in TotalHolesInputs :
       CompleteRound(c, r, d, t) /\ Observe(c, r, d, t)
  \/ CallProgress(c)

StoreStep ==
  \/ \E p \in Profiles, k \in CourseIds, fail \in BOOLEAN : CreateRound(p, k, fail)
  \/ \E r \in RoundIds, fail \in BOOLEAN : DeleteAbandonedRound(r, fail)
  \/ \E r \in RoundIds, h \in 1..MaxHoles, d \in HoleEntries : SaveHoleData(r, h, d)

\* one client: completeRound calls follow one another, createRound and
\* deleteAbandonedRound interleave with them at every await
Next == CallStep("A") \/ StoreStep

Spec == Init /\ [][Next]_vars

\* the same behaviours, with the history of repeated calls recorded in obs
NextObserved == ObservedCallStep("A") \/ StoreStep

SpecObserved == Init /\ [][NextObserved]_vars

\* ------------------------------------------------- two concurrent calls
\* the hole data of an earlier completion of the round: every hole played
\* with the longest shot list
PriorHoleData ==
  [h \in 1..MaxHoles |->
     [defined |-> TRUE, hasShots |-> TRUE, par |-> 4,
      shots |-> [i \in 1..MaxShots |-> CHOOSE e \in ShotEntries : TRUE]]]

\* one round in the store, fresh from createRound or completed once before;
\* obs.base keeps what the store held about it before the two calls
InitRace ==
  /\ \E k \in CourseIds, prior \in BOOLEAN :
       LET fresh == [rounds |-> InsertRound({}, 1, "p1", k), shots |-> {}]
           before == IF prior
                       THEN CompleteRoundEffect(fresh, 1, PriorHoleData, MaxHoles)
                       ELSE fresh
       IN /\ rounds = before.rounds
          /\ shots = before.shots
          /\ obs = [c \in Callers |-> [prior |-> "none", base |-> before]]
  /\ nextId = 2
  /\ call = [c \in Callers |-> IdleCall]
  /\ user_permissions = {}
  /\ insights = {}
  /\ gen = IdleGen

\* the steps of a call when no store call fails
RaceProgress(c) ==
  \/ FetchRound(c, FALSE)
  \/ FetchCourse(c, FALSE)
  \/ SaveHole(c, FALSE)
  \/ \E invokeThrows \in BOOLEAN : UpdateRound(c, FALSE, invokeThrows)
  \/ \E outcome \in {"success", "error", "rejected"} : InsightSettle(c, outcome)

\* caller A finalizes the round; caller B finalizes it too, with the same
\* arguments, entering at any point of A's call; their awaits interleave
NextRace ==
  \/ \E d \in HoleDataInputs, t \in TotalHolesInputs :
       /\ call["A"].pc = "idle"
       /\ CompleteRound("A", 1, d, t)
       /\ UNCHANGED obs
  \/ /\ call["A"].pc # "idle"
     /\ call["B"].pc = "idle"
     /\ CompleteRound("B", call["A"].round_id, call["A"].storedHoleData,
                      call["A"].totalHoles)
     /\ UNCHANGED obs
  \/ \E c \in Callers : RaceProgress(c)

SpecRace == InitRace /\ [][NextRace]_vars

\* ====================================================== insights function
\* src/oldfunctionclaude.ts: the handler serve() runs for one request

\* ---------------------------------------------------------------- bounds
MaxStored == 6      \* completed rounds the profile has in the store
MaxSegments == 3    \* segments of a response text
MaxCards == 2       \* cards in the model's answer
MaxChain == 4       \* segments of a response text made of fences and documents

\* ------------------------------------------------------- program constants
RoundsLimit == 5            \* .limit(5)
FreeRounds == 1             \* processedRounds.slice(0, 1)
PremiumMaxTokens == 10000
FreeMaxTokens == 4000

\* ------------------------------------------------------------ value space
Users == {"p1", "p2"}
ProductA == "product_a"

\* a JavaScript null held by a field that is present (Null: the field is absent)
JsNull == "(null)"

\* the profiles table
profiles ==
  { [id |-> "p1", handicap |-> Some(12)], [id |-> "p2", handicap |-> Null] }

PermissionRows ==
  { [profile_id |-> "p1", permission_id |-> ProductA, active |-> TRUE],
    [profile_id |-> "p1", permission_id |-> ProductA, active |-> FALSE],
    [profile_id |-> "p1", permission_id |-> "product_b", active |-> TRUE],
    [profile_id |-> "p2", permission_id |-> ProductA, active |-> TRUE] }

PermissionTables == SUBSET PermissionRows

\* request bodies: {userId?, roundId?}; a body that is not JSON reads as {}
BodyInputs ==
  [userId : {Null} \cup { Some(u) : u \in Users }, roundId : {Null, Some(1)}]

\* supabase.auth.getUser(token) answers {data: {user}, error: null} or
\* {data: {user: null}, error} (its UserResponse type), or throws
AuthAnswers ==
  { [op |-> "getUser", kind |-> "user", user |-> Some(u)] : u \in Users } \cup
  { [op |-> "getUser", kind |-> k, user |-> Null] : k \in {"error", "threw"} }

\* a store call answers {data, error: null} or {data: null, error}, or throws
StoreAnswers == {"ok", "error", "threw"}

Answer(op, kind) == [op |-> op, kind |-> kind, user |-> Null]

\* ---------------------------------------------------- what the store holds
\* the round the profile completed as its id-th, completeRound's totals on it
StoredRound(id, profile_id, is_complete) ==
  LET course_id == IF id % 2 = 1 THEN "c1" ELSE "c2"
      courseData == CHOOSE k \in courses : k.id = course_id
  IN [id |-> id, profile_id |-> profile_id, course_id |-> course_id,
      is_complete |-> is_complete,
      gross_shots |-> IF is_complete THEN Some(1) ELSE Null,
      score |-> IF is_complete THEN Some(1 - CoursePar(courseData.par)) ELSE Null]

\* n completed rounds of p1, a newer round of p1 still in play, and a
\* completed round of p2
StoredRounds(n) ==
  { StoredRound(id, "p1", TRUE) : id \in 1..n } \cup
  { StoredRound(n + 1, "p1", FALSE), StoredRound(n + 2, "p2", TRUE) }

StoredShots(n) ==
  { HoleRow(id, 1, [par |-> 4, shots |-> <<CHOOSE e \in ShotEntries : TRUE>>]) :
      id \in (1..n) \cup {n + 2} }

\* created_at is the store's insertion default: the store hands out ids in
\* insertion order, so a row's id stands for its created_at
CreatedAt(r) == r.id

\* rows as a list, newest first
RECURSIVE NewestFirst(_)
NewestFirst(rows) ==
  IF rows = {} THEN <<>>
  ELSE LET newest == CHOOSE r \in rows : \A q \in rows : CreatedAt(q) <= CreatedAt(r)
       IN <<newest>> \o NewestFirst(rows \ {newest})

\* array.slice(0, n)
Slice(seq, n) == SubSeq(seq, 1, IF Len(seq) < n THEN Len(seq) ELSE n)

\* rounds.select(...).eq("profile_id", userId).eq("is_complete", true)
\*   .order("created_at", {ascending: false}).limit(5)
RecentCompleted(tbl, userId) ==
  Slice(NewestFirst({ r \in tbl : r.profile_id = userId /\ r.is_complete }),
        RoundsLimit)

\* roundsData.map((round) => round.id)
IdsOf(roundsData) == [i \in 1..Len(roundsData) |-> roundsData[i].id]

\* one element of processedRounds: the round with its holes' details
ProcessRound(round, allHoleData) ==
  LET roundHoles == { hole \in allHoleData : hole.round_id = round.id }
      courseData == CHOOSE k \in courses : k.id = round.course_id
  IN [roundId |-> round.id,
      totalScore |-> round.gross_shots,
      par |-> CoursePar(courseData.par),
      holeDetails |-> { [holeNumber |-> hole.hole_number,
                         totalShots |-> IF hole.total_score = 0
                                          THEN Len(hole.hole_data.shots)
                                          ELSE hole.total_score] :
                          hole \in roundHoles }]

ProcessRounds(roundsData, allHoleData) ==
  [i \in 1..Len(roundsData) |-> ProcessRound(roundsData[i], allHoleData)]

\* (variant: the free tier is sent every fetched round)
BuildRequestSendsAll(hasProductA, processedRounds, userHandicap) ==
  [max_tokens |-> IF hasProductA THEN PremiumMaxTokens ELSE FreeMaxTokens,
   prompt |-> IF hasProductA THEN "premium" ELSE "conversion",
   handicap |-> IF hasProductA THEN userHandicap ELSE Null,
   golfData |-> [rounds |-> processedRounds,
                 totalRounds |-> Len(processedRounds),
                 limitedData |-> ~hasProductA]]

\* golfData, promptContent and maxTokens by permission, as sent to the API
BuildRequest(hasProductA, processedRounds, userHandicap) ==
  IF hasProductA
    THEN [max_tokens |-> PremiumMaxTokens, prompt |-> "premium",
          handicap |-> userHandicap,
          golfData |-> [rounds |-> processedRounds,
                        totalRounds |-> Len(processedRounds),
                        limitedData |-> FALSE]]
    ELSE LET limitedRounds == Slice(processedRounds, FreeRounds)
         IN [max_tokens |-> FreeMaxTokens, prompt |-> "conversion",
             handicap |-> Null,
             golfData |-> [rounds |-> limitedRounds,
                           totalRounds |-> Len(limitedRounds),
                           limitedData |-> TRUE]]

\* ------------------------------------------------- the model's answer text
\* a card of the model's answer (content stands for the fields copied through
\* verbatim: id, title, content)
CardTypes ==
  {"sequence", "pattern", "spatial", "temporal", "summary", "premium-feature"}
Priorities == {1, 2}
VariantInputs ==
  {Null} \cup { Some(v) : v \in {"filled", "outlined", "alert", "success",
                                  "highlight", "standard", "bold", "constructor"} }
CtaInputs == {Null, Some(""), Some("Go premium")}

\* cards that differ in type, priority and content
TypedCards ==
  [type : CardTypes, priority : Priorities, content : {"a", "b"}, icon : {Null},
   variant : {Some("standard")}, cta_text : {Null}]

\* cards that differ in variant
VariantCards ==
  [type : {"summary"}, priority : {1}, content : {"a"}, icon : {Null},
   variant : VariantInputs, cta_text : {Null}]

\* cards that differ in call-to-action text
CtaCards ==
  [type : {"summary", "premium-feature"}, priority : {1}, content : {"a"},
   icon : {Null}, variant : {Some("standard")}, cta_text : CtaInputs]

CardInputs == TypedCards \cup VariantCards \cup CtaCards

CardLists == UNION { [1..n -> CardInputs] : n \in 0..MaxCards }

\* JSON documents: null, an object without cards, an object with a card list
JsonNull == [isNull |-> TRUE, cards |-> Null]
NoCards == [isNull |-> FALSE, cards |-> Null]
WithCards(cards) == [isNull |-> FALSE, cards |-> Some(cards)]
OneCard ==
  WithCards(<<[type |-> "summary", priority |-> 1, content |-> "a", icon |-> Null,
               variant |-> Some("filled"), cta_text |-> Null]>>)

\* a text is a list of segments: prose, a fence with or without the json tag,
\* or the serialisation of a JSON document (white space is not a segment)
Prose == [kind |-> "prose", value |-> Null]
FenceJson == [kind |-> "fence json", value |-> Null]
Fence == [kind |-> "fence", value |-> Null]
Json(doc) == [kind |-> "json", value |-> Some(doc)]

Texts(segments) == UNION { [1..n -> segments] : n \in 0..MaxSegments }

\* every shape of text, around the three plain documents
ShapedMessages == Texts({Prose, FenceJson, Fence, Json(JsonNull), Json(NoCards), Json(OneCard)})

\* every card list, in a json fence
FencedMessages == { <<FenceJson, Json(WithCards(cards)), Fence>> : cards \in CardLists }

\* longer texts of fences and documents only: a fence of one form before or
\* inside a block of the other
ChainMessages == [1..MaxChain -> {FenceJson, Fence, Json(NoCards), Json(OneCard)}]

TransformMessages == ShapedMessages \cup FencedMessages \cup ChainMessages

\* the answers the handler is run on from its start
HandlerMessages == { <<FenceJson, Json(OneCard), Fence>>, <<Json(NoCards)>>, <<Prose>> }

\* --------------------------------------------------------- JSON extraction
IsFence(segment) == segment.kind \in {"fence json", "fence"}

Least(S) == CHOOSE i \in S : \A j \in S : i <= j

\* text.match(/<opening>\s*([\s\S]*?)\s*<fence>/): the leftmost opening that
\* has a fence after it, up to the nearest such fence (the tagged fence
\* begins with the three backquotes of a fence, so it closes a match too)
FenceMatch(text, opening) ==
  LET starts == { i \in 1..Len(text) :
                    /\ text[i].kind \in opening
                    /\ \E j \in (i + 1)..Len(text) : IsFence(text[j]) }
  IN IF starts = {} THEN [matched |-> FALSE, group |-> <<>>]
     ELSE LET i == Least(starts)
              j == Least({ k \in (i + 1)..Len(text) : IsFence(text[k]) })
          IN [matched |-> TRUE, group |-> SubSeq(text, i + 1, j - 1)]

\* (variant: the match of any fence is tried before the tagged one)
JsonTextPlainFirst(claudeMessage) ==
  LET tagged == FenceMatch(claudeMessage, {"fence json"})
      plain == FenceMatch(claudeMessage, {"fence json", "fence"})
      group == IF plain.matched THEN plain.group
               ELSE IF tagged.matched THEN tagged.group ELSE claudeMessage
  IN IF group = <<>> THEN claudeMessage ELSE group

\* match(tagged fence) || match(any fence) || [null, claudeMessage], then
\* jsonMatch[1] || claudeMessage
JsonText(claudeMessage) ==
  LET tagged == FenceMatch(claudeMessage, {"fence json"})
      plain == FenceMatch(claudeMessage, {"fence json", "fence"})
      group == IF tagged.matched THEN tagged.group
               ELSE IF plain.matched THEN plain.group ELSE claudeMessage
  IN IF group = <<>> THEN claudeMessage ELSE group

\* JSON.parse: the text has to be one document and nothing else
JsonParse(text) ==
  IF Len(text) = 1 /\ text[1].kind = "json"
    THEN [ok |-> TRUE, value |-> text[1].value]
    ELSE [ok |-> FALSE, value |-> Null]

\* ---------------------------------------------------------- transformation
\* the value of an own key of variantMap, a member inherited from
\* Object.prototype for one of its names, undefined otherwise
Inherited == "[Function: Object]"
VariantMapAt(variant) ==
  IF variant = Some("filled") THEN Some("highlight")
  ELSE IF variant = Some("outlined") THEN Some("standard")
  ELSE IF variant = Some("alert") THEN Some("alert")
  ELSE IF variant = Some("success") THEN Some("success")
  ELSE IF variant = Some("highlight") THEN Some("highlight")
  ELSE IF variant = Some("standard") THEN Some("standard")
  ELSE IF variant = Some("constructor") THEN Some(Inherited)
  ELSE Null

\* variantMap[variant] || "standard"
mapCardVariantToUi(variant) ==
  IF VariantMapAt(variant) # Null THEN VariantMapAt(variant)[1] ELSE "standard"

\* card.icon?.name || "analytics-outline"
IconName(icon) == IF icon = Null THEN "analytics-outline" ELSE icon[1]

\* the payload (completeInsights); a field that is Null is absent
NoPayload ==
  [error |-> Null, rawResponse |-> Null, summary |-> Null, tieredInsights |-> <<>>,
   primaryIssue |-> Null, reason |-> Null, practiceFocus |-> Null,
   managementTip |-> Null, progress |-> Null, analyzedRounds |-> <<>>,
   productAccess |-> Null]

PremiumSummaryDefault == "Analysis is being generated based on your recent play."
FreeSummaryDefault == "Complete a round to get basic insights about your game."
CtaDefault == "Unlock Premium Insights"
PrimaryIssuePlaceholder ==
  "Upgrade to premium insights to receive detailed analysis of your primary technical issues."
ReasonPlaceholder ==
  "Premium insights include root cause analysis based on comprehensive shot pattern detection."
PracticeFocusPlaceholder ==
  "Unlock premium insights for personalized practice recommendations tailored to your game."
ManagementTipPlaceholder ==
  "Premium insights include course management strategies designed for your playing style."

\* the card handed to the premium renderer
PremiumCard(card) ==
  [content |-> card.content, iconName |-> IconName(card.icon),
   variant |-> mapCardVariantToUi(card.variant),
   usePremiumButton |-> Null, productId |-> Null, ctaText |-> Null]

\* (variant: every card of the free tier carries the button)
ConversionCardAlwaysButton(card) ==
  [content |-> card.content, iconName |-> IconName(card.icon),
   variant |-> mapCardVariantToUi(card.variant),
   usePremiumButton |-> Some(TRUE), productId |-> Some(ProductA),
   ctaText |-> IF card.cta_text = Null \/ card.cta_text = Some("")
                 THEN Some(CtaDefault) ELSE card.cta_text]

\* the card of the free tier, with the PremiumButton properties
ConversionCard(card) ==
  LET isPremiumFeature == card.type = "premium-feature"
  IN [content |-> card.content, iconName |-> IconName(card.icon),
      variant |-> mapCardVariantToUi(card.variant),
      usePremiumButton |-> Some(isPremiumFeature),
      productId |-> IF isPremiumFeature THEN Some(ProductA) ELSE Some(JsNull),
      ctaText |-> IF isPremiumFeature
                    THEN IF card.cta_text = Null \/ card.cta_text = Some("")
                           THEN Some(CtaDefault) ELSE card.cta_text
                    ELSE Null]

\* cards.filter((c) => c.type === type)
MatchingCards(cards, type) == SelectSeq(cards, LAMBDA c : c.type = type)

\* (variant: the first card of the type, whatever its priority)
HighestPriorityCardFirstListed(matchingCards) ==
  matchingCards[1]

\* matchingCards.sort((a, b) => a.priority - b.priority)[0]: the sort is
\* stable, so of the cards with the least priority number the first listed
HighestPriorityCard(matchingCards) ==
  LET i == CHOOSE i \in 1..Len(matchingCards) :
             /\ \A j \in 1..Len(matchingCards) :
                  matchingCards[i].priority <= matchingCards[j].priority
             /\ \A j \in 1..(i - 1) :
                  matchingCards[i].priority < matchingCards[j].priority
  IN matchingCards[i]

\* the legacy field of one card type; cards is insightsJSON.cards
LegacyField(cards, type) ==
  IF cards = Null \/ cards = Some(<<>>) THEN Null
  ELSE LET matchingCards == MatchingCards(cards[1], type)
       IN IF Len(matchingCards) > 0
            THEN Some(HighestPriorityCard(matchingCards).content)
            ELSE Null

\* the product_a branch of the transformation
PremiumInsights(insightsJSON, roundIds) ==
  LET cards == insightsJSON.cards
      some == cards # Null /\ cards # Some(<<>>)
  IN [NoPayload EXCEPT
        !.summary = IF some THEN Some(cards[1][1].content)
                    ELSE Some(PremiumSummaryDefault),
        !.tieredInsights = IF cards = Null THEN <<>>
                           ELSE [i \in 1..Len(cards[1]) |-> PremiumCard(cards[1][i])],
        !.primaryIssue = LegacyField(cards, "sequence"),
        !.reason = LegacyField(cards, "pattern"),
        !.practiceFocus = LegacyField(cards, "spatial"),
        !.managementTip = LegacyField(cards, "temporal"),
        !.progress = IF some THEN Some("null") ELSE Null,
        !.analyzedRounds = roundIds,
        !.productAccess = Some(ProductA)]

\* the other branch: conversion cards and placeholder legacy fields
ConversionInsights(insightsJSON, roundIds) ==
  LET cards == insightsJSON.cards
      summaries == IF cards = Null THEN <<>> ELSE MatchingCards(cards[1], "summary")
  IN [NoPayload EXCEPT
        !.summary = IF Len(summaries) > 0 THEN Some(summaries[1].content)
                    ELSE Some(FreeSummaryDefault),
        !.tieredInsights = IF cards = Null THEN <<>>
                           ELSE [i \in 1..Len(cards[1]) |-> ConversionCard(cards[1][i])],
        !.primaryIssue = Some(PrimaryIssuePlaceholder),
        !.reason = Some(ReasonPlaceholder),
        !.practiceFocus = Some(PracticeFocusPlaceholder),
        !.managementTip = Some(ManagementTipPlaceholder),
        !.progress = Some("null"),
        !.analyzedRounds = Slice(roundIds, FreeRounds),
        !.productAccess = Null]

\* the catch of the parse: the raw text with an error marker
FallbackInsights(claudeMessage, roundIds, hasProductA) ==
  [NoPayload EXCEPT
     !.error = Some("Failed to parse as JSON"),
     !.rawResponse = Some(claudeMessage),
     !.analyzedRounds = roundIds,
     !.productAccess = IF hasProductA THEN Some(ProductA) ELSE Null]

\* lines 472-571 as one function of the answer text
CompleteInsights(claudeMessage, hasProductA, roundIds) ==
  LET parsed == JsonParse(JsonText(claudeMessage))
  IN IF ~parsed.ok \/ parsed.value[1].isNull   \* null.cards throws inside the try
       THEN FallbackInsights(claudeMessage, roundIds, hasProductA)
       ELSE IF hasProductA THEN PremiumInsights(parsed.value[1], roundIds)
            ELSE ConversionInsights(parsed.value[1], roundIds)

\* ------------------------------------------------------ the handler's steps
NoResponse ==
  [status |-> 0, error |-> Null, message |-> Null, insights |-> Null,
   insightsId |-> Null, analyzedRounds |-> <<>>, productAccess |-> Null]

\* (variant: the exception leaves the handler, no response is built)
FailedUnhandled(g, message) ==
  [g EXCEPT !.pc = "done"]

\* the catch of the handler: {error: error.message} with status 500
Failed(g, message) ==
  [g EXCEPT !.pc = "done",
            !.response = Some([NoResponse EXCEPT !.status = 500,
                                                 !.error = Some(message)])]

\* if (!userId) throw; otherwise on to the profile
Identified(g) ==
  IF g.userId = Null
    THEN Failed(g, "Unable to determine user ID. Please ensure you're logged in.")
    ELSE [g EXCEPT !.pc = "fetchProfile"]

\* the request arrives: preflight, environment, body, Authorization header
Receive(method, env, authHeader, body) ==
  /\ gen.pc = "idle"
  /\ gen' =
       IF method = "OPTIONS"
         THEN [gen EXCEPT !.pc = "done",
                          !.response = Some([NoResponse EXCEPT !.status = 204])]
       ELSE IF env = "no CLAUDE_API_KEY"
         THEN Failed(gen, "Missing CLAUDE_API_KEY environment variable")
       ELSE IF env = "no Supabase credentials"
         THEN Failed(gen, "Missing Supabase credentials in environment variables")
       ELSE LET g == [gen EXCEPT !.requestBody = body, !.authHeader = authHeader]
            IN IF authHeader
                 THEN [g EXCEPT !.pc = "getUser"]
                 ELSE Identified([g EXCEPT !.userId = body.userId])
  /\ UNCHANGED <<roundVars, user_permissions, insights>>

\* (variant: an error of the token lookup leaves the user id unset)
GetUserNoFallback(answer) ==
  /\ gen.pc = "getUser"
  /\ gen' = Identified([gen EXCEPT
                !.answer = answer,
                !.userId = IF answer.kind = "user" THEN answer.user
                           ELSE IF answer.kind = "error" THEN Null
                           ELSE gen.requestBody.userId])
  /\ UNCHANGED <<roundVars, user_permissions, insights>>

\* (variant: the body's userId, when there is one, goes before the token's)
GetUserPrefersBody(answer) ==
  /\ gen.pc = "getUser"
  /\ gen' = Identified([gen EXCEPT
                !.answer = answer,
                !.userId = IF gen.requestBody.userId # Null \/ answer.kind # "user"
                             THEN gen.requestBody.userId
                             ELSE answer.user])
  /\ UNCHANGED <<roundVars, user_permissions, insights>>

\* supabase.auth.getUser(token): the user's id, or the body's userId when the
\* lookup answers an error or throws
GetUser(answer) ==
  /\ gen.pc = "getUser"
  /\ gen' = Identified([gen EXCEPT
                !.answer = answer,
                !.userId = IF answer.kind = "user" THEN answer.user
                           ELSE gen.requestBody.userId])
  /\ UNCHANGED <<roundVars, user_permissions, insights>>

\* profiles.select("handicap, first_name").eq("id", userId).single(); an error
\* or an exception is logged
FetchProfile(kind) ==
  /\ gen.pc = "fetchProfile"
  /\ LET res == Single({ p \in profiles : p.id = gen.userId[1] })
     IN gen' = [gen EXCEPT
          !.answer = Answer("profiles", kind),
          !.userHandicap = IF kind = "ok" /\ ~res.error
                             THEN (CHOOSE p \in res.data : TRUE).handicap
                             ELSE Null,
          !.pc = "checkPermission"]
  /\ UNCHANGED <<roundVars, user_permissions, insights>>

\* (variant: a failed permission lookup grants the product)
CheckPermissionFailsOpen(kind) ==
  /\ gen.pc = "checkPermission"
  /\ LET permissions == { p \in user_permissions :
                            /\ p.profile_id = gen.userId[1]
                            /\ p.permission_id = ProductA
                            /\ p.active = TRUE }
     IN gen' = [gen EXCEPT
          !.answer = Answer("user_permissions", kind),
          !.hasProductA = kind # "ok" \/ permissions # {},
          !.triggeringRoundId = gen.requestBody.roundId,
          !.pc = "fetchRounds"]
  /\ UNCHANGED <<roundVars, user_permissions, insights>>

\* user_permissions.select("*").eq("profile_id", userId)
\*   .eq("permission_id", "product_a").eq("active", true); then roundId
CheckPermission(kind) ==
  /\ gen.pc = "checkPermission"
  /\ LET permissions == { p \in user_permissions :
                            /\ p.profile_id = gen.userId[1]
                            /\ p.permission_id = ProductA
                            /\ p.active = TRUE }
     IN gen' = [gen EXCEPT
          !.answer = Answer("user_permissions", kind),
          !.hasProductA = kind = "ok" /\ permissions # {},
          !.triggeringRoundId = gen.requestBody.roundId,
          !.pc = "fetchRounds"]
  /\ UNCHANGED <<roundVars, user_permissions, insights>>

\* (variant: no check for an empty result)
FetchRoundsAcceptsNone(fail) ==
  /\ gen.pc = "fetchRounds"
  /\ LET roundsData == RecentCompleted(rounds, gen.userId[1])
         g == [gen EXCEPT !.answer = Answer("rounds", IF fail THEN "error" ELSE "ok")]
     IN gen' = IF fail
                 THEN Failed(g, "Could not retrieve your recent rounds data")
                 ELSE [g EXCEPT !.roundsData = roundsData,
                                !.roundIds = IdsOf(roundsData),
                                !.pc = "fetchShots"]
  /\ UNCHANGED <<roundVars, user_permissions, insights>>

\* the query for the 5 most recent completed rounds
FetchRounds(fail) ==
  /\ gen.pc = "fetchRounds"
  /\ LET roundsData == RecentCompleted(rounds, gen.userId[1])
         g == [gen EXCEPT !.answer = Answer("rounds", IF fail THEN "error" ELSE "ok")]
     IN gen' = IF fail
                 THEN Failed(g, "Could not retrieve your recent rounds data")
               ELSE IF Len(roundsData) = 0
                 THEN Failed(g, "No completed rounds found. Please complete a round first.")
               ELSE [g EXCEPT !.roundsData = roundsData,
                              !.roundIds = IdsOf(roundsData),
                              !.pc = "fetchShots"]
  /\ UNCHANGED <<roundVars, user_permissions, insights>>

\* shots.select("*").in("round_id", roundIds), then processedRounds, golfData,
\* the prompt and the request
FetchShots(fail) ==
  /\ gen.pc = "fetchShots"
  /\ LET allHoleData == { s \in shots :
                            \E i \in 1..Len(gen.roundIds) : s.round_id = gen.roundIds[i] }
         processedRounds == ProcessRounds(gen.roundsData, allHoleData)
         g == [gen EXCEPT !.answer = Answer("shots", IF fail THEN "error" ELSE "ok")]
     IN gen' = IF fail
                 THEN Failed(g, "Could not retrieve shot data for your rounds")
                 ELSE [g EXCEPT
                         !.processedRounds = processedRounds,
                         !.request = Some(BuildRequest(gen.hasProductA, processedRounds,
                                                       gen.userHandicap)),
                         !.pc = "callClaude"]
  /\ UNCHANGED <<roundVars, user_permissions, insights>>

ApiOutcomes == {"ok", "status", "transport", "envelope"}

\* (variant: a refused call is made once more)
CallClaudeRetries(outcome, message) ==
  /\ gen.pc = "callClaude"
  /\ LET g == [gen EXCEPT !.apiCalls = @ + 1, !.answer = Answer("fetch", outcome)]
     IN gen' = IF outcome = "ok"
                 THEN [g EXCEPT !.claudeMessage = Some(message), !.pc = "parse"]
               ELSE IF outcome = "status" /\ gen.apiCalls = 0
                 THEN g
               ELSE Failed(g, "Claude API error")
  /\ UNCHANGED <<roundVars, user_permissions, insights>>

\* fetch(api.anthropic.com/v1/messages), once: a rejected fetch, a status
\* that is not ok, or an envelope without content[0] end the handler in its
\* catch; otherwise claudeMessage is the text of the first content block
CallClaude(outcome, message) ==
  /\ gen.pc = "callClaude"
  /\ LET g == [gen EXCEPT !.apiCalls = @ + 1, !.answer = Answer("fetch", outcome)]
     IN gen' = IF outcome = "ok"
                 THEN [g EXCEPT !.claudeMessage = Some(message), !.pc = "parse"]
               ELSE IF outcome = "status" THEN Failed(g, "Claude API error")
               ELSE IF outcome = "transport" THEN Failed(g, "fetch failed")
               ELSE Failed(g, "Cannot read properties of undefined")
  /\ UNCHANGED <<roundVars, user_permissions, insights>>

\* (variant: a text that does not parse ends the handler in its catch)
ParseResponseRethrows ==
  /\ gen.pc = "parse"
  /\ LET claudeMessage == gen.claudeMessage[1]
         parsed == JsonParse(JsonText(claudeMessage))
         g == [gen EXCEPT !.jsonText = Some(JsonText(claudeMessage)),
                          !.insightsJSON = parsed.value]
     IN gen' = IF ~parsed.ok \/ parsed.value[1].isNull
                 THEN Failed(g, "Failed to parse as JSON")
                 ELSE [g EXCEPT
                         !.completeInsights =
                            Some(CompleteInsights(claudeMessage, gen.hasProductA,
                                                  gen.roundIds)),
                         !.pc = "storeInsights"]
  /\ UNCHANGED <<roundVars, user_permissions, insights>>

\* the text is searched for JSON, parsed and transformed by permission; the
\* catch around it builds the fallback payload
ParseResponse ==
  /\ gen.pc = "parse"
  /\ LET claudeMessage == gen.claudeMessage[1]
     IN gen' = [gen EXCEPT
          !.jsonText = Some(JsonText(claudeMessage)),
          !.insightsJSON = JsonParse(JsonText(claudeMessage)).value,
          !.completeInsights =
             Some(CompleteInsights(claudeMessage, gen.hasProductA, gen.roundIds)),
          !.pc = "storeInsights"]
  /\ UNCHANGED <<roundVars, user_permissions, insights>>

\* the row handed to insights.insert(...)
InsightRow(id) ==
  [id |-> id, profile_id |-> gen.userId[1], round_id |-> gen.triggeringRoundId,
   insights |-> gen.completeInsights[1]]

\* the success response
Succeeded(g, storedInsightsId) ==
  [g EXCEPT
     !.storedInsightsId = storedInsightsId,
     !.pc = "done",
     !.response = Some([NoResponse EXCEPT
        !.status = 200,
        !.message = Some("Golf insights generated successfully"),
        !.insights = g.completeInsights,
        !.insightsId = storedInsightsId,
        !.analyzedRounds = g.roundIds,
        !.productAccess = IF g.hasProductA THEN Some(ProductA) ELSE Null])]

\* (variant: an insert that fails ends the handler in its catch)
StoreInsightsSurfaces(kind) ==
  /\ gen.pc = "storeInsights"
  /\ LET id == Cardinality(insights) + 1
         g == [gen EXCEPT !.answer = Answer("insights", kind)]
     IN IF kind = "ok"
          THEN /\ insights' = insights \cup {InsightRow(id)}
               /\ gen' = Succeeded(g, Some(id))
          ELSE /\ UNCHANGED insights
               /\ gen' = Failed(g, "Could not store insights")
  /\ UNCHANGED <<roundVars, user_permissions>>

\* (variant: the record takes the place of the profile's earlier records)
StoreInsightsReplaces(kind) ==
  /\ gen.pc = "storeInsights"
  /\ LET id == Cardinality(insights) + 1
         g == [gen EXCEPT !.answer = Answer("insights", kind)]
     IN IF kind = "ok"
          THEN /\ insights' = { row \in insights : row.profile_id # gen.userId[1] }
                                \cup {InsightRow(id)}
               /\ gen' = Succeeded(g, Some(id))
          ELSE /\ UNCHANGED insights
               /\ gen' = Succeeded(g, Null)
  /\ UNCHANGED <<roundVars, user_permissions>>

\* insights.insert({profile_id, round_id, insights, created_at})
\*   .select("id").single(); an error or an exception is logged; then the
\* response
StoreInsights(kind) ==
  /\ gen.pc = "storeInsights"
  /\ LET id == Cardinality(insights) + 1
         g == [gen EXCEPT !.answer = Answer("insights", kind)]
     IN IF kind = "ok"
          THEN /\ insights' = insights \cup {InsightRow(id)}
               /\ gen' = Succeeded(g, Some(id))
          ELSE /\ UNCHANGED insights
               /\ gen' = Succeeded(g, Null)
  /\ UNCHANGED <<roundVars, user_permissions>>

\* ----------------------------------------------------------- specifications
\* one request served from its arrival, on a store that holds 0..MaxStored
\* completed rounds of p1 and any table of permissions
InitInsights ==
  /\ \E n \in 0..MaxStored :
       /\ rounds = StoredRounds(n)
       /\ shots = StoredShots(n)
       /\ nextId = n + 3
  /\ call = [c \in Callers |-> IdleCall]
  /\ obs = [c \in Callers |-> NoObs]
  /\ user_permissions \in PermissionTables
  /\ insights = {}
  /\ gen = IdleGen

NextInsights ==
  \/ \E method \in {"OPTIONS", "POST"},
        env \in {"ok", "no CLAUDE_API_KEY", "no Supabase credentials"},
        authHeader \in BOOLEAN, body \in BodyInputs :
       Receive(method, env, authHeader, body)
  \/ \E answer \in AuthAnswers : GetUser(answer)
  \/ \E kind \in StoreAnswers : FetchProfile(kind)
  \/ \E kind \in StoreAnswers : CheckPermission(kind)
  \/ \E fail \in BOOLEAN : FetchRounds(fail)
  \/ \E fail \in BOOLEAN : FetchShots(fail)
  \/ \E outcome \in ApiOutcomes, message \in HandlerMessages : CallClaude(outcome, message)
  \/ ParseResponse
  \/ \E kind \in StoreAnswers : StoreInsights(kind)

SpecInsights == InitInsights /\ [][NextInsights]_vars

\* ------------------------------------ the invocation completeRound triggers
\* the request functions.invoke sends arrives at the handler: the body is
\* {userId: roundData.profile_id, roundId: round_id}; the client adds its
\* session token, if it has one, as Authorization header
TriggeredReceive(c, authHeader) ==
  /\ call[c].trigger.state = "pending"
  /\ Receive("POST", "ok", authHeader,
             [userId |-> Some(call[c].trigger.userId),
              roundId |-> Some(call[c].trigger.roundId)])

\* the token is the session token of the round's owner: the lookup answers
\* that user, an error, or throws
TriggeredGetUser(kind) ==
  GetUser([op |-> "getUser", kind |-> kind,
           user |-> IF kind = "user" THEN gen.requestBody.userId ELSE Null])

\* the round service with one client, and the handler serving the request
\* that a completeRound call of that client dispatched
NextTriggered ==
  \/ \E t \in {0, 1} : CompleteRound("A", 1, PriorHoleData, t) /\ UNCHANGED obs
  \/ CallProgress("A")
  \/ StoreStep
  \/ \E authHeader \in BOOLEAN : TriggeredReceive("A", authHeader)
  \/ \E kind \in {"user", "error", "threw"} : TriggeredGetUser(kind)
  \/ \E kind \in StoreAnswers : FetchProfile(kind)
  \/ \E kind \in StoreAnswers : CheckPermission(kind)
  \/ \E fail \in BOOLEAN : FetchRounds(fail)
  \/ \E fail \in BOOLEAN : FetchShots(fail)
  \/ \E outcome \in ApiOutcomes, message \in HandlerMessages : CallClaude(outcome, message)
  \/ ParseResponse
  \/ \E kind \in StoreAnswers : StoreInsights(kind)

SpecTriggered == Init /\ [][NextTriggered]_vars

\* a record an earlier invocation stored (for p1 when id is odd, p2 when even)
PriorInsight(id) ==
  [id |-> id, profile_id |-> IF id % 2 = 1 THEN "p1" ELSE "p2",
   round_id |-> IF id % 2 = 1 THEN Some(1) ELSE Null,
   insights |-> FallbackInsights(<<Prose>>, <<1>>, FALSE)]

\* one request served on a store that holds the records of 0..2 earlier
\* invocations and two completed rounds of p1
InitHistory ==
  /\ rounds = StoredRounds(2)
  /\ shots = StoredShots(2)
  /\ nextId = 5
  /\ call = [c \in Callers |-> IdleCall]
  /\ obs = [c \in Callers |-> NoObs]
  /\ user_permissions \in PermissionTables
  /\ \E n \in 0..2 : insights = { PriorInsight(id) : id \in 1..n }
  /\ gen = IdleGen

SpecHistory == InitHistory /\ [][NextInsights]_vars

\* the handler from the point where the API has answered, for p1 with two
\* completed rounds, on every answer text
AnsweredGen(hasProductA, message) ==
  LET roundsData == RecentCompleted(StoredRounds(2), "p1")
      processedRounds == ProcessRounds(roundsData, StoredShots(2))
  IN [IdleGen EXCEPT
        !.pc = "parse",
        !.requestBody = [userId |-> Some("p1"), roundId |-> Some(2)],
        !.answer = Answer("fetch", "ok"),
        !.userId = Some("p1"),
        !.userHandicap = Some(12),
        !.hasProductA = hasProductA,
        !.triggeringRoundId = Some(2),
        !.roundsData = roundsData,
        !.roundIds = IdsOf(roundsData),
        !.processedRounds = processedRounds,
        !.request = Some(BuildRequest(hasProductA, processedRounds, Some(12))),
        !.apiCalls = 1,
        !.claudeMessage = Some(message)]

InitTransform ==
  /\ rounds = StoredRounds(2)
  /\ shots = StoredShots(2)
  /\ nextId = 5
  /\ call = [c \in Callers |-> IdleCall]
  /\ obs = [c \in Callers |-> NoObs]
  /\ insights = {}
  /\ \E hasProductA \in BOOLEAN, message \in TransformMessages :
       /\ user_permissions =
            IF hasProductA
              THEN { [profile_id |-> "p1", permission_id |-> ProductA,
                      active |-> TRUE] }
              ELSE {}
       /\ gen = AnsweredGen(hasProductA, message)

NextTransform ==
  \/ ParseResponse
  \/ \E kind \in StoreAnswers : StoreInsights(kind)

SpecTransform == InitTransform /\ [][NextTransform]_vars

\* ================================================================= claims
HoleNumbers == 1..(MaxHoles + 1)

\* the entry of a hole has a non-empty shot list
HasShotList(entry) == entry.defined /\ entry.hasShots /\ entry.shots # <<>>

Count(seq, x) == Cardinality({ i \in 1..Len(seq) : seq[i] = x })

RowsOfHole(round_id, h) ==
  { s \in shots : s.round_id = round_id /\ s.hole_number = h }

RECURSIVE SumShots(_, _)
SumShots(storedHoleData, holes) ==
  IF holes = <<>> THEN 0
  ELSE Len(EntryAt(storedHoleData, Head(holes)).shots)
         + SumShots(storedHoleData, Tail(holes))

\* the par the score is taken against: the stored par, 72 when none is stored
ParOfCourse(course_id) ==
  LET k == CHOOSE k \in courses : k.id = course_id
  IN IF k.par = Null THEN 72 ELSE k.par[1]

\* C1: a completeRound call that returns has upserted exactly one hole record
\* for each hole number in 1..totalHoles whose entry has a non-empty shot
\* list (the store then holds exactly that one record for the hole), and has
\* written none for a hole whose entry is missing, has no shot list or an
\* empty one, or whose number is above totalHoles.
C1_OneRecordPerPlayedHole ==
  \A c \in Callers :
    call[c].pc = "returned" =>
      \A h \in HoleNumbers :
        LET entry == EntryAt(call[c].storedHoleData, h)
        IN IF h <= call[c].totalHoles /\ HasShotList(entry)
             THEN /\ Count(call[c].wrote, h) = 1
                  /\ RowsOfHole(call[c].round_id, h) =
                       { [round_id |-> call[c].round_id, hole_number |-> h,
                          hole_data |-> [par |-> entry.par, shots |-> entry.shots],
                          total_score |-> Len(entry.shots)] }
             ELSE Count(call[c].wrote, h) = 0

\* a call returned that wrote hole 1 and skipped hole 2, whose shot list is empty
C1_Witness ==
  /\ call["A"].pc = "returned"
  /\ call["A"].totalHoles = 2
  /\ call["A"].wrote = <<1>>
  /\ call["A"].storedHoleData[2].hasShots
  /\ call["A"].storedHoleData[2].shots = <<>>

\* C2: after a completeRound that returned the updated round, the round's
\* gross_shots is the sum of the shot-list lengths of the holes that call
\* wrote and its score is gross_shots minus the course's stored par, or
\* minus 72 when the course stores none, however many holes were played.
C2_ScoreIsGrossMinusCoursePar ==
  \A c \in Callers :
    call[c].pc = "returned" =>
      \A row \in call[c].finalRoundData :
        LET gross == SumShots(call[c].storedHoleData, call[c].wrote)
        IN /\ row.id = call[c].round_id
           /\ row.gross_shots = Some(gross)
           /\ row.score = Some(gross - ParOfCourse(row.course_id))
           /\ row \in rounds

\* one hole of two shots on the course without a stored par: 2 - 72 = -70
C2_Witness ==
  /\ call["A"].pc = "returned"
  /\ call["A"].wrote = <<2>>
  /\ \E row \in call["A"].finalRoundData :
       /\ row.course_id = "c2"
       /\ row.gross_shots = Some(2)
       /\ row.score = Some(-70)

\* C3: in every state of the store a round is complete exactly when its
\* totals are set: a complete round has gross_shots and score, an incomplete
\* round has neither.
C3_FlagAndTotalsTogether ==
  \A r \in rounds :
    /\ r.is_complete => (r.gross_shots # Null /\ r.score # Null)
    /\ ~r.is_complete => (r.gross_shots = Null /\ r.score = Null)

\* a completed round is in the store
C3_Witness ==
  \E r \in rounds : r.is_complete /\ r.gross_shots = Some(3)

\* the holes below k, in ascending order, that lie in 1..totalHoles and have a
\* non-empty shot list
PlayedBelow(storedHoleData, totalHoles, k) ==
  LET Played(h) == h <= totalHoles /\ HasShotList(EntryAt(storedHoleData, h))
  IN SelectSeq([i \in 1..(k - 1) |-> i], Played)

ExpectedRow(round_id, h, entry) ==
  [round_id |-> round_id, hole_number |-> h,
   hole_data |-> [par |-> entry.par, shots |-> entry.shots],
   total_score |-> Len(entry.shots)]

\* C4: holes are written one after the other in ascending order: while the
\* write of hole k is outstanding, exactly the played holes below k have been
\* written and none above. If the write of hole k fails the call throws an
\* error naming hole k, the records of exactly the played holes below k stay
\* in the store and no hole above k has been written.
C4_HoleFailureAbortsInOrder ==
  \A c \in Callers :
    LET d == call[c].storedHoleData
        t == call[c].totalHoles
        k == call[c].holeNum
    IN /\ call[c].pc = "saveHole" =>
            /\ k \in 1..t
            /\ HasShotList(EntryAt(d, k))
            /\ call[c].wrote = PlayedBelow(d, t, k)
       /\ (call[c].pc = "failed" /\ call[c].error.stage = "Failed to save data for hole") =>
            /\ call[c].error.hole = k
            /\ k \in 1..t
            /\ HasShotList(EntryAt(d, k))
            /\ call[c].wrote = PlayedBelow(d, t, k)
            /\ \A h \in 1..(k - 1) :
                 (h <= t /\ HasShotList(EntryAt(d, h))) =>
                   RowsOfHole(call[c].round_id, h) =
                     { ExpectedRow(call[c].round_id, h, EntryAt(d, h)) }

\* the write of hole 2 failed after hole 1 was written: hole 1 stays stored
C4_Witness ==
  /\ call["A"].pc = "failed"
  /\ call["A"].error = [stage |-> "Failed to save data for hole", hole |-> 2]
  /\ call["A"].wrote = <<1>>
  /\ RowsOfHole(call["A"].round_id, 1) # {}

\* what holds of a call that has thrown
C5_FailedCall ==
  \A c \in Callers :
    call[c].pc = "failed" =>
      /\ call[c].error.stage \in
           {"Failed to fetch round information", "Failed to fetch course information",
            "Failed to save data for hole", "Failed to finalize round"}
      /\ call[c].trigger.state = "none"
      /\ call[c].invoked = 0
      /\ call[c].finalRoundData = {}
      /\ call[c].error.stage \in
           {"Failed to fetch round information", "Failed to fetch course information"}
           => call[c].wrote = <<>>
      /\ \A i \in 1..Len(call[c].wrote) :
           ExpectedRow(call[c].round_id, call[c].wrote[i],
                       EntryAt(call[c].storedHoleData, call[c].wrote[i])) \in shots

\* C5: a completeRound call that throws (at the round fetch, the course
\* fetch, a hole write or the round update) has dispatched no insights
\* trigger and returned nothing; the hole records it wrote before the failure
\* are still stored; a failure of the round or course fetch comes before any
\* hole write; and no step of a call other than the one that returns changes
\* the rounds table, so the round row is as the call found it.
C5_ThrowLeavesRoundUnchanged ==
  /\ []C5_FailedCall
  /\ [][\A c \in Callers :
          (call'[c] # call[c] /\ call'[c].pc # "returned") => rounds' = rounds]_vars

\* the round update failed after both holes were written: the round is still
\* incomplete and the two hole records are stored
C5_Witness ==
  /\ call["A"].pc = "failed"
  /\ call["A"].error.stage = "Failed to finalize round"
  /\ call["A"].wrote = <<1, 2>>
  /\ \E r \in rounds : r.id = call["A"].round_id /\ ~r.is_complete

\* an invocation exists only for a call that has returned, and only one
C6_TriggerState ==
  \A c \in Callers :
    /\ call[c].invoked <= 1
    /\ call[c].trigger.state # "none" =>
         /\ call[c].pc = "returned"
         /\ call[c].invoked = 1
         /\ call[c].error = NoError

\* C6: the insights invocation is dispatched at most once per call, in the
\* step in which completeRound returns (the call does not wait for it), and
\* whatever its outcome (success, error result, rejection, or never settling)
\* the returned rows, the stored rounds and hole records and the call's
\* result stay what they were: no failure surfaces and nothing is retried.
C6_FireAndForget ==
  /\ []C6_TriggerState
  /\ [][\A c \in Callers :
          (call[c].trigger.state = "pending" /\ call'[c].trigger.state # "pending"
             /\ call'[c].round_id = call[c].round_id /\ call'[c].pc # "fetchRound") =>
            /\ call'[c].trigger.state \in {"success", "error", "rejected"}
            /\ call'[c].pc = "returned"
            /\ call'[c].finalRoundData = call[c].finalRoundData
            /\ call'[c].error = call[c].error
            /\ call'[c].invoked = call[c].invoked
            /\ rounds' = rounds
            /\ shots' = shots]_vars

\* the invocation was rejected after the call had returned the completed round
C6_Witness ==
  /\ call["A"].pc = "returned"
  /\ call["A"].trigger.state = "rejected"
  /\ call["A"].finalRoundData # {}
  /\ call["A"].finalRoundData \subseteq rounds

ViewOf(rs, ss, round_id) ==
  [rounds |-> { r \in rs : r.id = round_id },
   shots |-> { x \in ss : x.round_id = round_id }]

\* C7: when completeRound is called again with the round id, hole data and
\* totalHoles of the call that returned just before it, no step from that
\* entry on changes the round row or any hole record of the round.
C7_RepeatedCallChangesNothing ==
  [][\A c \in Callers :
       (obs[c].prior = "returned" /\ obs'[c] = obs[c]) =>
         ViewOf(rounds', shots', call[c].round_id)
           = ViewOf(rounds, shots, call[c].round_id)]_vars

\* the repeated call has returned too, having upserted both holes again
C7_Witness ==
  /\ obs["A"].prior = "returned"
  /\ call["A"].pc = "returned"
  /\ call["A"].wrote = <<1, 2>>
  /\ call["A"].finalRoundData # {}
  /\ obs["A"].base.shots # {}

\* C8: after a call failed at a hole write or at the round update, a retry
\* with the same arguments that returns (the round not having been deleted
\* meanwhile) leaves the store holding about the round exactly what one
\* failure-free call would have made of what it held when the failed call
\* began.
C8_RetryEqualsOneCleanCall ==
  \A c \in Callers :
    (/\ call[c].pc = "returned"
     /\ obs[c].prior = "failed"
     /\ obs[c].base.rounds # {}
     /\ View(call[c].round_id).rounds # {}) =>
      View(call[c].round_id) =
        CompleteRoundEffect(obs[c].base, call[c].round_id,
                            call[c].storedHoleData, call[c].totalHoles)

\* a retry returned after the first attempt had failed with hole 1 written
C8_Witness ==
  /\ call["A"].pc = "returned"
  /\ obs["A"].prior = "failed"
  /\ obs["A"].base.rounds # {}
  /\ obs["A"].base.shots = {}
  /\ call["A"].wrote = <<1, 2>>
  /\ \E r \in rounds : r.id = call["A"].round_id /\ r.is_complete

\* C9 as stated: once a round is complete, no step at all (completeRound
\* included) changes its row or any of its hole records.
C9_NothingChangesACompleteRound ==
  [][\A r \in rounds :
       r.is_complete =>
         /\ r \in rounds'
         /\ { x \in shots' : x.round_id = r.id } = { x \in shots : x.round_id = r.id }]_vars

\* C9 amended: once a round is complete its flag stays true, and no
\* createRound, saveHoleData or deleteAbandonedRound call (a step that is not
\* a completeRound step) changes its row or any of its hole records.
\* completeRound does not look at the flag: called on a complete round it
\* upserts hole records and overwrites the totals.
C9_OnlyCompleteRoundChangesACompleteRound ==
  [][\A r \in rounds :
       r.is_complete =>
         /\ \A q \in rounds' : q.id = r.id => q.is_complete
         /\ call' = call =>
              /\ r \in rounds'
              /\ { x \in shots' : x.round_id = r.id }
                   = { x \in shots : x.round_id = r.id }]_vars

\* a complete round with both hole records stored, no call in progress
C9_Witness ==
  /\ call["A"].pc = "returned"
  /\ \E r \in rounds :
       /\ r.is_complete
       /\ Cardinality({ x \in shots : x.round_id = r.id }) = 2

\* C10: a round that is complete stays in the store, complete, whatever
\* step comes next: deleteAbandonedRound removes incomplete rounds only, also
\* when it runs between the steps of a completeRound call on that round.
C10_CompleteRoundIsNeverDeleted ==
  [][\A r \in rounds :
       r.is_complete => \E q \in rounds' : q.id = r.id /\ q.is_complete]_vars

\* a call that completed the round has returned and the round is stored
C10_Witness ==
  /\ call["A"].pc = "returned"
  /\ call["A"].finalRoundData # {}
  /\ \E r \in rounds : r.id = call["A"].round_id /\ r.is_complete

\* ------------------------------------------------- the insights function
IdentityError == "Unable to determine user ID. Please ensure you're logged in."
NoRoundsError == "No completed rounds found. Please complete a round first."

\* the handler has ended in its catch with this message, HTTP status 500
EndedWith(message) ==
  /\ gen.pc = "done"
  /\ gen.response # Null
  /\ gen.response[1].status = 500
  /\ gen.response[1].error = Some(message)

\* the handler is past the resolution of the caller's identity
PastIdentity ==
  gen.pc \in {"fetchProfile", "checkPermission", "fetchRounds", "fetchShots",
              "callClaude", "parse", "storeInsights"}

\* the completed rounds the store holds for the resolved profile
CompletedOfUser ==
  { r \in rounds : gen.userId # Null /\ r.profile_id = gen.userId[1] /\ r.is_complete }

\* C11: the identity is the id of the token's user when the token lookup
\* yields a user, and the body's userId otherwise (no Authorization header,
\* or a lookup that answers an error or throws); the handler ends with the
\* identity error only when neither yields an id, so never when the body
\* carries an id.
C11_IdentityFromTokenElseBody ==
  /\ (gen.answer.op = "getUser" /\ gen.answer.kind = "user") =>
        (gen.userId = gen.answer.user /\ PastIdentity)
  /\ (gen.answer.op = "getUser" /\ gen.answer.kind # "user") =>
        gen.userId = gen.requestBody.userId
  /\ (gen.pc \notin {"idle", "getUser"} /\ ~gen.authHeader) =>
        gen.userId = gen.requestBody.userId
  /\ PastIdentity => gen.userId # Null
  /\ EndedWith(IdentityError) =>
        (gen.requestBody.userId = Null /\ gen.answer.kind # "user")
  /\ (gen.requestBody.userId # Null /\ gen.pc \notin {"idle", "getUser"}) =>
        (gen.userId # Null /\ ~EndedWith(IdentityError))

\* the token lookup answered an error and the body's id took its place
C11_Witness ==
  /\ gen.authHeader
  /\ gen.answer = [op |-> "getUser", kind |-> "error", user |-> Null]
  /\ gen.requestBody.userId = Some("p2")
  /\ gen.userId = Some("p2")
  /\ gen.pc = "fetchProfile"

\* C12: after the permission lookup the handler goes on to the rounds query,
\* whatever the lookup answered; hasProductA is true exactly when the lookup
\* answered without error and the table holds an active product_a row of the
\* resolved profile, and false when it answered an error or threw.
C12_PermissionFailsClosed ==
  LET active == \E p \in user_permissions :
                   /\ gen.userId # Null
                   /\ p.profile_id = gen.userId[1]
                   /\ p.permission_id = "product_a"
                   /\ p.active
  IN /\ gen.answer.op = "user_permissions" =>
          /\ gen.pc = "fetchRounds"
          /\ gen.response = Null
          /\ gen.hasProductA = (gen.answer.kind = "ok" /\ active)
     /\ gen.hasProductA => active

\* the lookup threw for a profile that holds the permission
C12_Witness ==
  /\ gen.answer = [op |-> "user_permissions", kind |-> "threw", user |-> Null]
  /\ gen.userId = Some("p1")
  /\ [profile_id |-> "p1", permission_id |-> "product_a", active |-> TRUE]
       \in user_permissions
  /\ ~gen.hasProductA
  /\ gen.pc = "fetchRounds"

\* C13: for a profile without a completed round the handler never calls the
\* generation API and writes no insight record, and when the rounds query
\* has answered it ends with status 500 and the message "No completed rounds
\* found. Please complete a round first.".
C13_NoCompletedRoundsIsAnError ==
  (gen.userId # Null /\ CompletedOfUser = {}) =>
    /\ gen.apiCalls = 0
    /\ insights = {}
    /\ gen.request = Null
    /\ gen.pc \notin {"fetchShots", "callClaude", "parse", "storeInsights"}
    /\ gen.answer.op = "rounds" =>
         /\ gen.pc = "done"
         /\ gen.response # Null
         /\ gen.response[1].status = 500
         /\ gen.response[1].insights = Null
         /\ gen.answer.kind = "ok" =>
              gen.response[1].error =
                Some("No completed rounds found. Please complete a round first.")

\* p1 has a round in play and none completed; the rounds query answered
C13_Witness ==
  /\ gen.userId = Some("p1")
  /\ \E r \in rounds : r.profile_id = "p1"
  /\ CompletedOfUser = {}
  /\ gen.answer = [op |-> "rounds", kind |-> "ok", user |-> Null]
  /\ EndedWith(NoRoundsError)

\* the ids of the rounds in the data sent to the API
SentRoundIds ==
  LET sent == gen.request[1].golfData.rounds
  IN [i \in 1..Len(sent) |-> sent[i].roundId]

\* the list holds the k most recent completed rounds of the profile, newest
\* first (all of them when there are fewer)
MostRecent(list, k) ==
  /\ Len(list) = (IF Cardinality(CompletedOfUser) < k
                    THEN Cardinality(CompletedOfUser) ELSE k)
  /\ \A i \in 1..Len(list) : \E r \in CompletedOfUser : r.id = list[i]
  /\ \A i \in 1..Len(list), j \in 1..Len(list) : i < j => list[i] > list[j]
  /\ \A r \in CompletedOfUser :
       (\A i \in 1..Len(list) : list[i] # r.id) =>
          \A i \in 1..Len(list) : r.id < list[i]

\* C14 as stated: without the permission at most 1 round is fetched and sent
\* and max_tokens is 4000; with it all fetched rounds (at most 5) are sent
\* and max_tokens is 10000.
C14_FreeTierFetchesOneRound ==
  gen.request # Null =>
    IF gen.hasProductA
      THEN /\ Len(gen.roundIds) <= 5
           /\ SentRoundIds = gen.roundIds
           /\ gen.request[1].max_tokens = 10000
      ELSE /\ Len(gen.roundIds) <= 1
           /\ SentRoundIds = gen.roundIds
           /\ gen.request[1].max_tokens = 4000

\* C14: the 5 most recent completed rounds of the profile are fetched
\* whatever the permission; without it only the most recent one is in the
\* data sent to the API and max_tokens is 4000, with it all fetched rounds
\* are sent and max_tokens is 10000.
C14_FreeTierSendsOneRound ==
  gen.request # Null =>
    /\ MostRecent(gen.roundIds, 5)
    /\ IF gen.hasProductA
         THEN /\ SentRoundIds = gen.roundIds
              /\ gen.request[1].golfData.totalRounds = Len(gen.roundIds)
              /\ gen.request[1].max_tokens = 10000
         ELSE /\ MostRecent(SentRoundIds, 1)
              /\ gen.request[1].golfData.totalRounds = 1
              /\ gen.request[1].max_tokens = 4000

\* six completed rounds, five fetched, one sent
C14_Witness ==
  /\ gen.request # Null
  /\ ~gen.hasProductA
  /\ Cardinality(CompletedOfUser) = 6
  /\ gen.roundIds = <<6, 5, 4, 3, 2>>
  /\ SentRoundIds = <<6>>
  /\ gen.pc = "callClaude"

\* the payload was built from a parsed answer, not by the fallback
Transformed ==
  /\ gen.completeInsights # Null
  /\ gen.completeInsights[1].error = Null

\* the cards of the parsed answer (none when it has no cards field)
ModelCards ==
  IF gen.insightsJSON = Null \/ gen.insightsJSON[1].cards = Null THEN <<>>
  ELSE gen.insightsJSON[1].cards[1]

ReturnedCards == gen.completeInsights[1].tieredInsights

\* C15: without the permission, a returned card has usePremiumButton true,
\* productId product_a and a non-empty ctaText exactly when the model's card
\* has type "premium-feature" (any other card has usePremiumButton false and
\* productId null), and primaryIssue, reason, practiceFocus and managementTip
\* are the fixed premium placeholders; with the permission no returned card
\* carries any of the three properties.
C15_ConversionOnlyOnPremiumFeatureCards ==
  Transformed =>
    /\ Len(ReturnedCards) = Len(ModelCards)
    /\ IF gen.hasProductA
         THEN \A i \in 1..Len(ReturnedCards) :
                /\ ReturnedCards[i].usePremiumButton = Null
                /\ ReturnedCards[i].productId = Null
                /\ ReturnedCards[i].ctaText = Null
         ELSE /\ \A i \in 1..Len(ReturnedCards) :
                   LET card == ReturnedCards[i]
                       affordance == /\ card.usePremiumButton = Some(TRUE)
                                     /\ card.productId = Some("product_a")
                                     /\ card.ctaText # Null
                                     /\ card.ctaText # Some("")
                   IN /\ affordance <=> ModelCards[i].type = "premium-feature"
                      /\ ~affordance => /\ card.usePremiumButton = Some(FALSE)
                                        /\ card.productId = Some(JsNull)
              /\ gen.completeInsights[1].primaryIssue =
                   Some("Upgrade to premium insights to receive detailed analysis of your primary technical issues.")
              /\ gen.completeInsights[1].reason =
                   Some("Premium insights include root cause analysis based on comprehensive shot pattern detection.")
              /\ gen.completeInsights[1].practiceFocus =
                   Some("Unlock premium insights for personalized practice recommendations tailored to your game.")
              /\ gen.completeInsights[1].managementTip =
                   Some("Premium insights include course management strategies designed for your playing style.")

\* a summary card and a premium-feature card whose cta_text is empty
C15_Witness ==
  /\ Transformed
  /\ ~gen.hasProductA
  /\ Len(ModelCards) = 2
  /\ ModelCards[1].type = "summary"
  /\ ModelCards[1].cta_text = Some("Go premium")
  /\ ReturnedCards[1].usePremiumButton = Some(FALSE)
  /\ ModelCards[2].type = "premium-feature"
  /\ ModelCards[2].cta_text = Some("")
  /\ ReturnedCards[2].ctaText = Some("Unlock Premium Insights")

\* the text has no JSON document in it, fenced or not
NoJsonIn(text) == \A i \in 1..Len(text) : text[i].kind # "json"

\* C16: when the answer text holds no JSON, fenced or raw, the handler does
\* not fail: the payload is the fallback (error "Failed to parse as JSON" and
\* the raw text), it is handed to the insert like any payload, and it is
\* returned in a response that is not a 500.
C16_UnparseableAnswerFallsBack ==
  (gen.claudeMessage # Null /\ NoJsonIn(gen.claudeMessage[1])) =>
    /\ gen.pc \in {"parse", "storeInsights", "done"}
    /\ gen.pc # "parse" =>
         /\ gen.completeInsights # Null
         /\ gen.completeInsights[1].error = Some("Failed to parse as JSON")
         /\ gen.completeInsights[1].rawResponse = gen.claudeMessage
         /\ gen.completeInsights[1].tieredInsights = <<>>
    /\ gen.pc = "done" =>
         /\ gen.response # Null
         /\ gen.response[1].status = 200
         /\ gen.response[1].error = Null
         /\ gen.response[1].insights = gen.completeInsights
         /\ gen.answer.op = "insights"
         /\ gen.answer.kind = "ok" =>
              /\ gen.response[1].insightsId # Null
              /\ \E row \in insights :
                   /\ Some(row.id) = gen.response[1].insightsId
                   /\ Some(row.insights) = gen.completeInsights
                   /\ Some(row.profile_id) = gen.userId

\* prose between fences: stored and returned as the fallback
C16_Witness ==
  /\ gen.claudeMessage = Some(<<FenceJson, Prose, Fence>>)
  /\ gen.pc = "done"
  /\ gen.response[1].status = 200
  /\ gen.response[1].insights[1].error = Some("Failed to parse as JSON")
  /\ \E row \in insights : row.insights.rawResponse = gen.claudeMessage

\* the variant table of the claim
VariantTable(variant) ==
  CASE variant = Some("filled") -> "highlight"
    [] variant = Some("outlined") -> "standard"
    [] variant = Some("alert") -> "alert"
    [] variant = Some("success") -> "success"
    [] variant = Some("highlight") -> "highlight"
    [] variant = Some("standard") -> "standard"
    [] OTHER -> "standard"

\* C17: the variant of a returned card is the table's value for the variant
\* of the model's card: filled to highlight, outlined to standard, alert,
\* success, highlight and standard to themselves, any other string or a
\* missing variant to standard; so it is one of highlight, standard, alert,
\* success.
C17_VariantIsNormalised ==
  Transformed =>
    \A i \in 1..Len(ReturnedCards) :
      /\ ReturnedCards[i].variant = VariantTable(ModelCards[i].variant)
      /\ ReturnedCards[i].variant \in {"highlight", "standard", "alert", "success"}

\* the cards of one type, by position
CardsOfType(type) == { i \in 1..Len(ModelCards) : ModelCards[i].type = type }

\* the legacy field holds the content of a card of the type with the lowest
\* priority number, and is absent when there is no card of the type
LegacyFieldIs(value, type) ==
  IF CardsOfType(type) = {} THEN value = Null
  ELSE \E i \in CardsOfType(type) :
         /\ \A j \in CardsOfType(type) :
              ModelCards[i].priority <= ModelCards[j].priority
         /\ value = Some(ModelCards[i].content)

\* C18: with the permission, primaryIssue, reason, practiceFocus and
\* managementTip are the contents of the sequence, pattern, spatial and
\* temporal card with the lowest priority number, each absent when there is
\* no card of its type; the returned cards are the model's cards in the
\* model's order.
C18_LegacyFieldsFromLowestPriority ==
  (Transformed /\ gen.hasProductA) =>
    /\ LegacyFieldIs(gen.completeInsights[1].primaryIssue, "sequence")
    /\ LegacyFieldIs(gen.completeInsights[1].reason, "pattern")
    /\ LegacyFieldIs(gen.completeInsights[1].practiceFocus, "spatial")
    /\ LegacyFieldIs(gen.completeInsights[1].managementTip, "temporal")
    /\ Len(ReturnedCards) = Len(ModelCards)
    /\ \A i \in 1..Len(ReturnedCards) :
         ReturnedCards[i].content = ModelCards[i].content

\* two sequence cards, the second one with the lower priority number
C18_Witness ==
  /\ Transformed
  /\ gen.hasProductA
  /\ Len(ModelCards) = 2
  /\ ModelCards[1].type = "sequence" /\ ModelCards[1].priority = 2
  /\ ModelCards[1].content = "a"
  /\ ModelCards[2].type = "sequence" /\ ModelCards[2].priority = 1
  /\ ModelCards[2].content = "b"
  /\ gen.completeInsights[1].primaryIssue = Some("b")
  /\ gen.completeInsights[1].reason = Null
  /\ ReturnedCards[1].content = "a"

\* C19: when the insert of the insight record answers an error or throws,
\* the response is still the success response with the generated payload,
\* and its insightsId is null.
C19_InsertFailureStillReturnsPayload ==
  (gen.answer.op = "insights" /\ gen.answer.kind \in {"error", "threw"}) =>
    /\ gen.pc = "done"
    /\ gen.response # Null
    /\ gen.response[1].status = 200
    /\ gen.response[1].error = Null
    /\ gen.response[1].insights # Null
    /\ gen.response[1].insights = gen.completeInsights
    /\ gen.response[1].insightsId = Null
    /\ insights = {}

\* the insert threw after a transformed answer
C19_Witness ==
  /\ gen.answer = [op |-> "insights", kind |-> "threw", user |-> Null]
  /\ Transformed
  /\ Len(ReturnedCards) = 2
  /\ gen.response[1].status = 200
  /\ gen.response[1].insights = gen.completeInsights
  /\ gen.response[1].insightsId = Null

\* C20: the generation API is called at most once per request; when the
\* call answers a status that is not 2xx or the fetch is rejected, the
\* handler ends with an error response, after that one call and without an
\* insight record.
C20_OneGenerationCallNoRetry ==
  /\ gen.apiCalls <= 1
  /\ (gen.answer.op = "fetch" /\ gen.answer.kind \in {"status", "transport"}) =>
       /\ gen.pc = "done"
       /\ gen.apiCalls = 1
       /\ gen.response # Null
       /\ gen.response[1].status = 500
       /\ gen.response[1].error # Null
       /\ gen.response[1].insights = Null
       /\ insights = {}

\* the API refused the one call
C20_Witness ==
  /\ gen.answer = [op |-> "fetch", kind |-> "status", user |-> Null]
  /\ gen.apiCalls = 1
  /\ gen.pc = "done"
  /\ gen.response[1].status = 500

\* the response is the preflight answer, the success response or the error
\* response {error, timestamp} with status 500
PreflightResponse(r) ==
  /\ r.status = 204
  /\ r.error = Null /\ r.message = Null /\ r.insights = Null
  /\ gen.answer = NoAnswer          \* no awaited call was made
  /\ gen.apiCalls = 0 /\ gen.request = Null
  /\ insights = {}

SuccessResponse(r) ==
  /\ r.status = 200
  /\ r.error = Null
  /\ r.message = Some("Golf insights generated successfully")
  /\ r.insights # Null /\ r.insights = gen.completeInsights
  /\ gen.apiCalls = 1

ErrorResponse(r) ==
  /\ r.status = 500
  /\ r.error # Null
  /\ r.message = Null /\ r.insights = Null /\ r.insightsId = Null
  /\ insights = {}

\* the handler's position in its code
Position(pc) ==
  CASE pc = "idle" -> 0
    [] pc = "getUser" -> 1
    [] pc = "fetchProfile" -> 2
    [] pc = "checkPermission" -> 3
    [] pc = "fetchRounds" -> 4
    [] pc = "fetchShots" -> 5
    [] pc = "callClaude" -> 6
    [] pc = "parse" -> 7
    [] pc = "storeInsights" -> 8
    [] pc = "done" -> 9

\* the step at the handler's position can be taken (with a failing answer
\* where the call can fail)
HasNextStep ==
  \/ ENABLED Receive("POST", "ok", TRUE, NoBody)
  \/ ENABLED GetUser([op |-> "getUser", kind |-> "threw", user |-> Null])
  \/ ENABLED FetchProfile("threw")
  \/ ENABLED CheckPermission("threw")
  \/ ENABLED FetchRounds(TRUE)
  \/ ENABLED FetchShots(TRUE)
  \/ ENABLED CallClaude("transport", <<>>)
  \/ ENABLED ParseResponse
  \/ ENABLED StoreInsights("threw")

C21_ResponseShape ==
  /\ gen.pc = "done" <=> gen.response # Null
  /\ gen.response # Null =>
       \/ PreflightResponse(gen.response[1])
       \/ SuccessResponse(gen.response[1])
       \/ ErrorResponse(gen.response[1])
  /\ gen.pc # "done" => HasNextStep

\* C21: every request is answered, once: the handler ends with the 204 of
\* the preflight (no store access, no generation call), with the success
\* response carrying the payload, or with a 500 response {error, timestamp}.
\* Whatever an awaited call answers, the handler moves forward in its code
\* and, short of a response, always has a next step, so no failure ends it
\* without a response; a response, once given, is not followed by another.
C21_ExactlyOneResponse ==
  /\ []C21_ResponseShape
  /\ [][/\ Position(gen'.pc) > Position(gen.pc)
        /\ gen.response = Null]_vars

\* the profile lookup threw and the insert answered an error: still a
\* response, the success response
C21_Witness ==
  /\ gen.pc = "done"
  /\ gen.answer = [op |-> "insights", kind |-> "error", user |-> Null]
  /\ gen.userHandicap = Null
  /\ gen.response # Null
  /\ gen.response[1].status = 200
  /\ gen.response[1].insights # Null

\* C22: when two completeRound calls on the same round with the same hole
\* data interleave and no store call fails, then once both have returned the
\* store holds about the round (its row: flag, gross_shots, score; its hole
\* records) exactly what one call with that data makes of what the store
\* held before the two; and each call returned that round row.
C22_RaceEqualsOneCall ==
  (call["A"].pc = "returned" /\ call["B"].pc = "returned") =>
    LET one == CompleteRoundEffect(obs["A"].base, 1, call["A"].storedHoleData,
                                   call["A"].totalHoles)
    IN /\ call["B"].storedHoleData = call["A"].storedHoleData
       /\ call["B"].totalHoles = call["A"].totalHoles
       /\ rounds = one.rounds
       /\ shots = one.shots
       /\ call["A"].finalRoundData = one.rounds
       /\ call["B"].finalRoundData = one.rounds

\* both calls wrote hole 1 over the record of the earlier completion and
\* both returned; the record of hole 2 is the earlier one
C22_Witness ==
  /\ call["A"].pc = "returned" /\ call["B"].pc = "returned"
  /\ call["A"].wrote = <<1>> /\ call["B"].wrote = <<1>>
  /\ obs["A"].base.shots # {}
  /\ \E r \in rounds : r.is_complete /\ r.gross_shots = Some(1)
  /\ \E x \in shots : x.hole_number = 1 /\ x.total_score = 1
  /\ \E x \in shots : x.hole_number = 2 /\ x.total_score = 2

\* C23: in a success response, the analyzed round ids returned to the caller
\* and those stored in the payload are the ids of the rounds whose data was
\* sent to the generation API, whether the payload was built with the
\* permission, without it, or by the parse fallback; and the returned and
\* stored product access is that of the permission that chose the branch.
C23_AnalyzedRoundsAreTheSentRounds ==
  (gen.response # Null /\ gen.response[1].status = 200) =>
    /\ gen.response[1].analyzedRounds = SentRoundIds
    /\ gen.completeInsights[1].analyzedRounds = SentRoundIds
    /\ gen.response[1].productAccess =
         (IF gen.hasProductA THEN Some("product_a") ELSE Null)
    /\ gen.completeInsights[1].productAccess = gen.response[1].productAccess

\* the two fenced forms on the answer text
TaggedMatch == FenceMatch(gen.claudeMessage[1], {"fence json"})
UntaggedMatch == FenceMatch(gen.claudeMessage[1], {"fence json", "fence"})

\* C24 as stated: the text handed to the parser is what the tagged form
\* captures when it matches, else what the untagged form captures when that
\* matches, and the raw text only when neither form matches.
C24_OrderedChainRawOnlyWithoutMatch ==
  gen.jsonText # Null =>
    gen.jsonText[1] =
      (IF TaggedMatch.matched THEN TaggedMatch.group
       ELSE IF UntaggedMatch.matched THEN UntaggedMatch.group
       ELSE gen.claudeMessage[1])

\* C24: the tagged form is tried first and the untagged form only when the
\* tagged one does not match; the text handed to the parser is what the
\* form that matched captures, unless it captures nothing: then, and when
\* neither form matches, the raw text is handed to the parser; the parsed
\* value is the parser's result on that text.
C24_OrderedChainEmptyCaptureIsRaw ==
  gen.jsonText # Null =>
    LET chosen == IF TaggedMatch.matched THEN TaggedMatch ELSE UntaggedMatch
    IN /\ (chosen.matched /\ chosen.group # <<>>) => gen.jsonText[1] = chosen.group
       /\ (chosen.matched /\ chosen.group = <<>>) =>
            gen.jsonText[1] = gen.claudeMessage[1]
       /\ ~chosen.matched => gen.jsonText[1] = gen.claudeMessage[1]
       /\ gen.insightsJSON =
            (IF Len(gen.jsonText[1]) = 1 /\ gen.jsonText[1][1].kind = "json"
               THEN gen.jsonText[1][1].value ELSE Null)

\* a bare fence stands before the tagged block: the tagged block is parsed
C24_Witness ==
  /\ gen.claudeMessage = Some(<<Fence, FenceJson, Json(OneCard), Fence>>)
  /\ gen.jsonText = Some(<<Json(OneCard)>>)
  /\ gen.insightsJSON = Some(OneCard)
  /\ Transformed

\* C25: in every state of the store there is at most one hole record for a
\* round and hole number, and the total_score of every hole record is the
\* length of its shot list, whatever completeRound calls came before
\* (repeated calls on the round with other hole data included).
C25_OneRecordPerHoleWithItsShotCount ==
  /\ \A x \in shots, y \in shots :
       (x.round_id = y.round_id /\ x.hole_number = y.hole_number) => x = y
  /\ \A x \in shots : x.total_score = Len(x.hole_data.shots)

\* a call returned that wrote hole 1 with two shots over the record of one
\* shot an earlier call had left
C25_Witness ==
  /\ call["A"].pc = "returned"
  /\ call["A"].wrote = <<1>>
  /\ \E x \in obs["A"].base.shots : x.hole_number = 1 /\ x.total_score = 1
  /\ \E x \in shots : x.hole_number = 1 /\ x.total_score = 2
  /\ Cardinality(RowsOfHole(call["A"].round_id, 1)) = 1

\* the records stored under the id the invocation got back from its insert
StoredNow == { row \in insights : Some(row.id) = gen.storedInsightsId }

C26_OneRecordOfThisRequest ==
  /\ gen.pc # "done" => gen.storedInsightsId = Null
  /\ gen.storedInsightsId # Null =>
       /\ Cardinality(StoredNow) = 1
       /\ \A row \in StoredNow :
            /\ Some(row.profile_id) = gen.userId
            /\ row.round_id = gen.requestBody.roundId
            /\ Some(row.insights) = gen.completeInsights
  /\ (gen.pc = "done" /\ gen.claudeMessage # Null
        /\ gen.answer = [op |-> "insights", kind |-> "ok", user |-> Null]) =>
       gen.storedInsightsId # Null

\* C26: an invocation inserts at most one insight record, in its one insert
\* step, and exactly one when the generation call succeeded and the store
\* accepts the insert; the record carries the resolved profile id, the
\* roundId of the request body (null when it has none) and the payload; no
\* step removes or changes a record the store already holds.
C26_InsightsOnlyGrowByOne ==
  /\ []C26_OneRecordOfThisRequest
  /\ [][/\ insights \subseteq insights'
        /\ Cardinality(insights') <= Cardinality(insights) + 1
        /\ insights' # insights =>
             (gen.pc = "storeInsights" /\ gen'.pc = "done")
        /\ (gen.pc = "storeInsights" /\ gen'.answer.kind = "ok") =>
             Cardinality(insights') = Cardinality(insights) + 1]_vars

\* p1 has a record of an earlier invocation; this one added a second record
\* for p1, without a round id
C26_Witness ==
  /\ PriorInsight(1) \in insights
  /\ gen.pc = "done"
  /\ gen.userId = Some("p1")
  /\ gen.requestBody.roundId = Null
  /\ gen.storedInsightsId = Some(2)
  /\ \E row \in insights : row.id = 2 /\ row.profile_id = "p1" /\ row.round_id = Null
  /\ Cardinality(insights) = 2

\* the sum of total_score over a set of hole records
RECURSIVE SumTotalScore(_)
SumTotalScore(rows) ==
  IF rows = {} THEN 0
  ELSE LET x == CHOOSE x \in rows : TRUE
       IN x.total_score + SumTotalScore(rows \ {x})

\* C27: in every state, the gross_shots of a round whose completion flag is
\* true is the sum of total_score over the hole records the store holds for
\* the round, whatever completeRound calls and retries came before (calls
\* on the round with other hole data included).
C27_GrossIsSumOfStoredHoles ==
  \A r \in rounds :
    r.is_complete =>
      r.gross_shots = Some(SumTotalScore({ x \in shots : x.round_id = r.id }))

\* C28: when completeRound has returned, the round of that id is in the
\* store, complete, with the gross_shots and score that call computed, also
\* when deleteAbandonedRound ran on the round between the call's steps; a
\* call whose update changed no row does not return.
C28_ReturnMeansCompleted ==
  \A c \in Callers :
    call[c].pc = "returned" =>
      /\ call[c].finalRoundData # {}
      /\ \E r \in rounds :
           /\ r.id = call[c].round_id
           /\ r.is_complete
           /\ r.gross_shots = Some(call[c].grossShots)
           /\ r.score = Some(call[c].grossShots - call[c].coursePar)

\* C29: completeRound dispatches the insights trigger at most once per call,
\* only in a call that returns, after the update that completes the round
\* wrote the round row, and with the round's profile id and the round id;
\* so the invocation it triggers finds a completed round of that profile:
\* its rounds query answers at least one round and it never ends with the
\* no-completed-rounds error.
C29_TriggeredGeneratorFindsARound ==
  /\ \A c \in Callers :
       /\ call[c].invoked <= 1
       /\ call[c].trigger.state # "none" =>
            /\ call[c].pc = "returned"
            /\ call[c].trigger.userId = call[c].roundData.profile_id
            /\ call[c].trigger.roundId = call[c].round_id
            /\ call[c].finalRoundData # {}
  /\ gen.answer = [op |-> "rounds", kind |-> "ok", user |-> Null] =>
       (gen.pc = "fetchShots" /\ Len(gen.roundsData) >= 1)
  /\ ~EndedWith(NoRoundsError)

\* what the handler has read, sent and written is that of the profile user
HandicapOf(user) == (CHOOSE p \in profiles : p.id = user).handicap

ReadsAreOf(user) ==
  /\ gen.userHandicap \in {Null, HandicapOf(user)}
  /\ gen.hasProductA =>
       \E p \in user_permissions :
         p.profile_id = user /\ p.permission_id = "product_a" /\ p.active
  /\ \A i \in 1..Len(gen.roundsData) :
       gen.roundsData[i] \in rounds /\ gen.roundsData[i].profile_id = user
  /\ gen.roundsData # <<>> =>
       /\ gen.roundIds = [i \in 1..Len(gen.roundsData) |-> gen.roundsData[i].id]
       /\ MostRecent(gen.roundIds, RoundsLimit)
  /\ gen.request # Null =>
       /\ gen.request[1].handicap \in {Null, HandicapOf(user)}
       /\ \A i \in 1..Len(SentRoundIds) : SentRoundIds[i] = gen.roundIds[i]
       /\ \A i \in 1..Len(SentRoundIds) :
            \A hole \in gen.request[1].golfData.rounds[i].holeDetails :
              \E x \in shots : /\ x.round_id = SentRoundIds[i]
                               /\ x.hole_number = hole.holeNumber
  /\ \A row \in insights : row.profile_id = user

C30_TokenUserDecides ==
  /\ (gen.answer.op = "getUser" /\ gen.answer.kind = "user") =>
       gen.userId = gen.answer.user
  /\ gen.userId # Null => ReadsAreOf(gen.userId[1])

\* C30: when the token lookup yields a user, the resolved id is that
\* user's whatever userId the body carries, and it stays so to the end of
\* the request; the handicap, the permission and the rounds read, the data
\* sent to the generation API and the profile id of the insight record are
\* those of the resolved id, so the body's userId decides none of them.
C30_BodyIdHasNoInfluenceWithToken ==
  /\ []C30_TokenUserDecides
  /\ [][gen.userId # Null => gen'.userId = gen.userId]_vars

\* the token is p1's and the body names p2, who has a completed round too:
\* p1's rounds were read and the record is p1's
C30_Witness ==
  /\ gen.authHeader
  /\ gen.requestBody.userId = Some("p2")
  /\ gen.userId = Some("p1")
  /\ \E r \in rounds : r.profile_id = "p2" /\ r.is_complete
  /\ gen.roundIds = <<2, 1>>
  /\ gen.hasProductA
  /\ gen.pc = "done"
  /\ \E row \in insights : row.profile_id = "p1"

====
